---- MODULE Spec2Model ----
\* Verification model of the ntm session coordinator:
\*   - the pipeline runner's output extractor (internal/pipeline/pipeline.go)
\*   - the assignment scorer (internal/coordinator/assign.go)
\* Byte strings are sequences of one-character strings; Go's 0-based half-open
\* slices s[i:j] are written Slice(s, i, j).  Scores are fixed-point, in
\* thousandths (0.15 is 150).
EXTENDS Integers, Sequences, FiniteSets, TLC

VARIABLES
    \* ---- output extractor (Execute, step 6) ----
    beforeOutput,   \* snapshot captured before the prompt was sent
    afterOutput,    \* snapshot captured after the pane went idle
    output,         \* value returned by extractNewOutput
    fault,          \* TRUE when extractNewOutput ended in a runtime panic
    xpc,            \* "idle" | "captured" | "extracted"
    \* ---- assignment scorer ----
    idleAgents,            \* []*AgentState handed to the scorer
    recommendations,       \* triage.Triage.Recommendations
    config,                \* ScoreConfig
    existingReservations,  \* map pane id -> reserved file patterns (nil: empty)
    selected,              \* result of ScoreAndSelectAssignments
    suggestion,            \* result of SuggestAssignment
    scored,                \* result of one scoreAssignment call
    spc,                   \* "build" | "selected" | "suggested" | "scored" | "assigned"
    \* ---- pipeline runner (Execute) ----
    stages,          \* p.Stages
    panes,           \* panes of p.Session as tmux reports them
    stageIdx,        \* the loop variable i, counted from 1
    ppc,             \* position of Execute in the stage
    stagePaneID,     \* paneID: the pane bound to the stage
    prompt,          \* prompt prepared for the stage
    previousOutput,  \* output of the stage before
    lastPaneID,      \* pane of the stage before
    ctxDone,         \* TRUE once the caller's context is cancelled
    result,          \* {} while Execute runs, then {its return value}
    sent,            \* every tmux.PasteKeys call, in order
    finished,        \* per finished stage: snapshots and extraction
    failed,          \* the steps that returned an error: [stage, step] records
    lostMid,         \* TRUE once the bound pane vanished inside a stage
    sentAtCancel,    \* number of PasteKeys calls when ctx was cancelled, -1 before
    \* ---- coordinator tick (AssignWork) ----
    registry,        \* the registry c.agents, each entry with its Status
    delivered,       \* panes given an assignment, no idle transition since
    reselected,      \* panes of delivered that the last tick selected again
    ticks,           \* number of ticks that followed the first one
    autoAssign,      \* c.config.AutoAssign
    mailClient,      \* TRUE when c.mailClient is set
    results,         \* []AssignmentResult returned by AssignWork
    events,          \* contents of the c.events channel
    \* ---- policy guard ----
    policy,          \* the rule lists of the Policy
    command,         \* the command handed to Check
    match,           \* result of Check: {} for nil, else {the match}
    \* ---- agent state detection ----
    scrollback,      \* the captured tail of the pane
    agentState,      \* {} before determineAgentState returns, then {its result}
    \* ---- redaction scan ----
    allMatches,      \* the matches scan collected, in pattern order
    deduped,         \* {} before deduplicateMatches returns, then {its result}
    redacted,        \* {} before applyRedactions returns, then {Result.Output}
    \* ---- session agent record ----
    agentFile,       \* agent.json of the session: NoFile or its content
    savePc,          \* position of the SaveSessionAgent call in progress
    saveInfo,        \* the info that call was given
    loaded,          \* what the LoadSessionAgent calls returned so far
    registerCalls,   \* the names of the RegisterAgent calls, in order
    registered,      \* {} before RegisterSessionAgent returns, then {its result}
    \* ---- file watcher ----
    recursive,       \* w.recursive
    eventFilter,     \* w.eventFilter
    watchedPaths,    \* w.watchedPaths, as the set of its keys
    pendingEvents,   \* w.pendingEvents
    closed,          \* w.closed
    hpc,             \* position of handleEvent: "idle" | "append" | "trigger"
    curEvent,        \* {} or {the event handleEvent is about to append}
    timerArmed,      \* TRUE while the debouncer's timer is set and has not fired
    running,         \* the debounce callbacks that started and have not returned
    handled,         \* every batch the handler was called with, in call order
    arrived,         \* every event that passed the filter, in arrival order
    addedFrom,       \* {} or {the Add that just returned nil for a new path}
    roundTrip,       \* {} or {the Add and Remove of one path that just ended}
    \* ---- quota fetcher ----
    provider,        \* the provider FetchQuota is called for
    qpc,             \* position of FetchQuota
    qInitial,        \* initialOutput of the wait in progress
    paneSent,        \* every command tmux.SendKeys delivered, in order
    quotaInfo        \* {} or {the QuotaInfo under construction}

extractVars == <<beforeOutput, afterOutput, output, fault, xpc>>

scoreVars == <<idleAgents, recommendations, config, existingReservations,
               selected, suggestion, scored, spc>>

pipeVars == <<stages, panes, stageIdx, ppc, stagePaneID, prompt, previousOutput,
              lastPaneID, ctxDone, result, sent, finished, failed, lostMid,
              sentAtCancel>>

coordVars == <<registry, delivered, reselected, ticks, autoAssign, mailClient,
               results, events>>

policyVars == <<policy, command, match>>

detectVars == <<scrollback, agentState>>

redactVars == <<allMatches, deduped, redacted>>

sessionVars == <<agentFile, savePc, saveInfo, loaded, registerCalls, registered>>

watchVars == <<recursive, eventFilter, watchedPaths, pendingEvents, closed, hpc,
               curEvent, timerArmed, running, handled, arrived, addedFrom,
               roundTrip>>

quotaVars == <<provider, qpc, qInitial, paneSent, quotaInfo>>

vars == <<beforeOutput, afterOutput, output, fault, xpc,
          idleAgents, recommendations, config, existingReservations,
          selected, suggestion, scored, spc,
          stages, panes, stageIdx, ppc, stagePaneID, prompt, previousOutput,
          lastPaneID, ctxDone, result, sent, finished, failed, lostMid,
          sentAtCancel,
          registry, delivered, reselected, ticks,
          autoAssign, mailClient, results, events,
          policy, command, match,
          scrollback, agentState,
          allMatches, deduped, redacted,
          agentFile, savePc, saveInfo, loaded, registerCalls, registered,
          recursive, eventFilter, watchedPaths, pendingEvents, closed, hpc,
          curEvent, timerArmed, running, handled, arrived, addedFrom,
          roundTrip,
          provider, qpc, qInitial, paneSent, quotaInfo>>

--------------------------------------------------------------------------
\* Bounds of the input space

\* longest affix put in front of / behind the run of a generated snapshot
MaxAffix == 2

\* most idle agents the registry reports, most recommendations in a triage
MaxAgents == 2
MaxRecs == 3

\* most file patterns one agent holds reserved
MaxReserved == 7

\* most rules in one list of a policy
MaxRules == 2

\* most stages of a pipeline, most panes of a session that a stage is bound in
MaxStages == 2
MaxPanes == 3

\* most ticks of the control loop after the first one
MaxTicks == 1

\* most lines of a captured tail
MaxLines == 2

\* most matches of one scan, length of the scanned input in bytes
MaxMatches == 2
MaxPos == 3

\* number of blocks the bytes of an agent.json record are written in
MaxBlocks == 2

\* most file-system events that pass the filter of one watcher
MaxEvents == 2

\* ContextUsage and ContextThreshold are percentages, 0-100
MaxPercent == 100

\* program constant: const chunkSize = 40
chunkSize == 40

Alphabet == {"a", "b"}

\* run lengths: no run, or a run that with its affixes straddles chunkSize
RunLens == {0, chunkSize - 2, chunkSize}

--------------------------------------------------------------------------
\* Go string primitives

Min(S) == CHOOSE x \in S : \A y \in S : x <= y

\* s[i:j]
Slice(s, i, j) == SubSeq(s, i + 1, j)

\* strings.Index(s, substr): first 0-based index of substr in s, or -1
Index(s, substr) ==
    LET hits == {i \in 0..(Len(s) - Len(substr)) :
                    Slice(s, i, i + Len(substr)) = substr}
    IN  IF hits = {} THEN -1 ELSE Min(hits)

Rep(c, n) == [i \in 1..n |-> c]

SeqsUpTo(n) == UNION {[1..k -> Alphabet] : k \in 0..n}

\* the scroll scenario of the specification
ScrollBefore ==
    <<"L","I","N","E","1","\n", "L","I","N","E","2","\n", "L","I","N","E","3","\n">>
ScrollAfter ==
    <<"L","I","N","E","2","\n", "L","I","N","E","3","\n", "L","I","N","E","4","\n">>

Snapshots ==
    {p \o Rep(c, n) \o s :
        p \in SeqsUpTo(MaxAffix), s \in SeqsUpTo(MaxAffix),
        c \in Alphabet, n \in RunLens}
    \cup {ScrollBefore, ScrollAfter}

--------------------------------------------------------------------------
\* extractNewOutput

Returned(s) == [kind |-> "return", out |-> s]
NoMatch     == [kind |-> "none",   out |-> <<>>]
Panicked    == [kind |-> "panic",  out |-> <<>>]

\* chunkLoop with the full-overlap comparison left out: the first occurrence of
\* the chunk is taken as the overlap
chunkLoop_firstHit(before, after, searchChunk, scanStart, offset) ==
    LET searchRegion == Slice(before, scanStart, Len(before))
        remaining    == Slice(searchRegion, offset, Len(searchRegion))
        idx          == Index(remaining, searchChunk)
        absIdx       == scanStart + offset + idx
        suffixLen    == Len(before) - absIdx
    IN  IF idx = -1 THEN NoMatch
        ELSE IF Len(after) >= suffixLen
             THEN Returned(Slice(after, suffixLen, Len(after)))
             ELSE Returned(<<>>)

\* the for-loop over the occurrences of searchChunk in searchRegion
RECURSIVE chunkLoop(_, _, _, _, _)
chunkLoop(before, after, searchChunk, scanStart, offset) ==
    LET searchRegion == Slice(before, scanStart, Len(before))
        remaining    == Slice(searchRegion, offset, Len(searchRegion))
        idx          == Index(remaining, searchChunk)
        absIdx       == scanStart + offset + idx
        suffixLen    == Len(before) - absIdx
    IN  IF idx = -1 THEN NoMatch
        ELSE IF /\ Len(after) >= suffixLen
                /\ Slice(after, 0, suffixLen) = Slice(before, absIdx, Len(before))
             THEN Returned(Slice(after, suffixLen, Len(after)))
             ELSE chunkLoop(before, after, searchChunk, scanStart, offset + idx + 1)

\* the fallback loop: for k := chunkSize - 1; k > 0; k--.
\* before[len(before)-k:] is a runtime panic when k > len(before).
RECURSIVE fallbackLoop(_, _, _)
fallbackLoop(before, after, k) ==
    IF k <= 0 THEN NoMatch
    ELSE IF Len(before) - k < 0 THEN Panicked
    ELSE IF Slice(before, Len(before) - k, Len(before)) = Slice(after, 0, k)
         THEN Returned(Slice(after, k, Len(after)))
         ELSE fallbackLoop(before, after, k - 1)

\* extractNewOutput without the append fast path
extractNewOutput_noFastPath(before, after) ==
    IF before = <<>> THEN Returned(after)
    ELSE IF after = <<>> THEN Returned(<<>>)
    ELSE
        LET searchChunk == IF Len(after) >= chunkSize
                           THEN Slice(after, 0, chunkSize)
                           ELSE after
            scanStart   == IF Len(before) - Len(after) < 0
                           THEN 0
                           ELSE Len(before) - Len(after)
            found       == chunkLoop(before, after, searchChunk, scanStart, 0)
            fallback    == IF Len(after) > chunkSize
                           THEN fallbackLoop(before, after, chunkSize - 1)
                           ELSE NoMatch
        IN  IF found.kind = "return" THEN found
            ELSE IF fallback.kind = "none" THEN Returned(after)
            ELSE fallback

extractNewOutput(before, after) ==
    IF before = <<>> THEN Returned(after)
    ELSE IF after = <<>> THEN Returned(<<>>)
    ELSE IF Len(after) >= Len(before) /\ Slice(after, 0, Len(before)) = before
         THEN Returned(Slice(after, Len(before), Len(after)))
    ELSE
        LET searchChunk == IF Len(after) >= chunkSize
                           THEN Slice(after, 0, chunkSize)
                           ELSE after
            scanStart   == IF Len(before) - Len(after) < 0
                           THEN 0
                           ELSE Len(before) - Len(after)
            found       == chunkLoop(before, after, searchChunk, scanStart, 0)
            fallback    == IF Len(after) > chunkSize
                           THEN fallbackLoop(before, after, chunkSize - 1)
                           ELSE NoMatch
        IN  IF found.kind = "return" THEN found
            ELSE IF fallback.kind = "none" THEN Returned(after)
            ELSE fallback

--------------------------------------------------------------------------
\* Pipeline runner (internal/pipeline/pipeline.go): prompts, pane binding

\* "\n\n(See previous output above)"
SeePrevious ==
    <<"\n", "\n", "(", "S", "e", "e", " ", "p", "r", "e", "v", "i", "o", "u",
      "s", " ", "o", "u", "t", "p", "u", "t", " ", "a", "b", "o", "v", "e",
      ")">>

\* "\n\nResult from previous stage:\n"
ResultHeading ==
    <<"\n", "\n", "R", "e", "s", "u", "l", "t", " ", "f", "r", "o", "m", " ",
      "p", "r", "e", "v", "i", "o", "u", "s", " ", "s", "t", "a", "g", "e",
      ":", "\n">>

\* preparePrompt without the test for a reused pane
preparePrompt_alwaysInline(stagePrompt, prevOutput, pane, lastPane) ==
    IF prevOutput # <<>>
    THEN stagePrompt \o ResultHeading \o prevOutput
    ELSE stagePrompt

\* step 2 of Execute: the prompt sent for a stage
preparePrompt(stagePrompt, prevOutput, pane, lastPane) ==
    IF prevOutput # <<>>
    THEN IF pane = lastPane
         THEN stagePrompt \o SeePrevious
         ELSE stagePrompt \o ResultHeading \o prevOutput
    ELSE stagePrompt

\* strings.ToLower on the agent types the model uses
ToLower(t) ==
    CASE t = "Claude" -> "claude"
      [] t = "CC"     -> "cc"
      [] OTHER        -> t

normalizeAgentType(t) ==
    CASE ToLower(t) \in {"claude", "cc", "claude-code"} -> "cc"
      [] ToLower(t) \in {"codex", "cod", "openai"}      -> "cod"
      [] ToLower(t) \in {"gemini", "gmi", "google"}     -> "gmi"
      [] OTHER                                          -> t

Bound(id)    == [err |-> "", id |-> id]
BindError(e) == [err |-> e, id |-> ""]

\* second pass: the first pane of the type, whatever its variant
RECURSIVE relaxedPass(_, _, _)
relaxedPass(paneList, k, targetType) ==
    IF k > Len(paneList) THEN BindError("no agent found")
    ELSE IF paneList[k].Type = targetType THEN Bound(paneList[k].ID)
    ELSE relaxedPass(paneList, k + 1, targetType)

\* first pass: the first pane of the type whose variant is the model asked for
RECURSIVE exactPass(_, _, _, _)
exactPass(paneList, k, targetType, model) ==
    IF k > Len(paneList) THEN BindError("no agent found")
    ELSE IF paneList[k].Type = targetType
            /\ ~(model # "" /\ paneList[k].Variant # model)
         THEN Bound(paneList[k].ID)
    ELSE exactPass(paneList, k + 1, targetType, model)

\* findPaneForStage that takes the first pane of the type in every case
findPaneForStage_firstOfType(getPanesOk, paneList, agentType, model) ==
    IF ~getPanesOk THEN BindError("tmux")
    ELSE relaxedPass(paneList, 1, normalizeAgentType(agentType))

\* findPaneForStage; getPanesOk is FALSE when tmux.GetPanes returns an error
findPaneForStage(getPanesOk, paneList, agentType, model) ==
    LET targetType == normalizeAgentType(agentType)
        exact == exactPass(paneList, 1, targetType, model)
    IN  IF ~getPanesOk THEN BindError("tmux")
        ELSE IF exact.err = "" THEN exact
        ELSE IF model # "" THEN relaxedPass(paneList, 1, targetType)
        ELSE BindError("no agent found")

--------------------------------------------------------------------------
\* Assignment scorer (internal/coordinator/assign.go).
\* Scores are float64 in the code; the model keeps them in thousandths.  An
\* optional pointer (Profile, Breakdown) is a set: {} is nil, {r} points to r.

\* DefaultScoreConfig()
DefaultScoreConfig ==
    [PreferCriticalPath      |-> TRUE,
     PenalizeFileOverlap     |-> TRUE,
     UseAgentProfiles        |-> TRUE,
     BudgetAware             |-> TRUE,
     ContextThreshold        |-> 80,
     ProfileTagBoostWeight   |-> 0,
     FocusPatternBoostWeight |-> 0]

\* ExtractTaskTags(title, ""), evaluated on the titles the model uses
ExtractTaskTags(title) ==
    CASE title = "Quick fix" -> {"bugs"}
      [] title = "Add unit tests for internal/config/config_test.go"
            -> {"implementation", "testing"}
      [] OTHER -> {}

\* ExtractMentionedFiles(title, ""), evaluated on the titles the model uses
ExtractMentionedFiles(title) ==
    CASE title = "Add unit tests for internal/config/config_test.go"
            -> <<"internal/config/config_test.go">>
      [] OTHER -> <<>>

\* matchFocusPattern(pattern, file), evaluated on the patterns and files the
\* model uses: "**/*_test.go" is the suffix test HasSuffix(file, "_test.go"),
\* "tests/**" the prefix test HasPrefix(file, "tests/")
matchFocusPattern(pattern, file) ==
    /\ pattern = "**/*_test.go"
    /\ file = "internal/config/config_test.go"

\* estimateTaskComplexity, in thousandths.  The float64 sum 0.5 - 0.1 - 0.1
\* (task, priority 0) is 0.30000000000000004, above the 0.3 the thresholds
\* compare with; every other sum of these terms compares as its decimal value.
\* The one excess is kept as a thousandth.
estimateTaskComplexity(rec) ==
    LET byType == CASE rec.Type = "epic"    -> 500 + 300
                    [] rec.Type = "feature" -> 500 + 200
                    [] rec.Type = "bug"     -> 500
                    [] rec.Type = "task"    -> 500 - 100
                    [] rec.Type = "chore"   -> 500 - 200
                    [] OTHER                -> 500
        byPriority == IF rec.Priority = 0 THEN byType - 100
                      ELSE IF rec.Priority >= 3 THEN byType + 100
                      ELSE byType
        byUnblocks == IF Len(rec.UnblocksIDs) >= 5 THEN byPriority + 150
                      ELSE IF Len(rec.UnblocksIDs) >= 3 THEN byPriority + 100
                      ELSE byPriority
        rounding == IF rec.Type = "task" /\ rec.Priority = 0
                       /\ Len(rec.UnblocksIDs) < 3
                    THEN 1 ELSE 0
        complexity == byUnblocks + rounding
    IN  IF complexity < 0 THEN 0
        ELSE IF complexity > 1000 THEN 1000
        ELSE complexity

\* computeAgentTypeBonus with the claude and codex cases exchanged
computeAgentTypeBonus_swapped(agentType, rec) ==
    LET taskComplexity == estimateTaskComplexity(rec)
    IN  CASE agentType \in {"cod", "codex"} ->
                IF taskComplexity >= 700 THEN 150
                ELSE IF taskComplexity <= 300 THEN -50
                ELSE 0
          [] agentType \in {"cc", "claude"} ->
                IF taskComplexity <= 300 THEN 150
                ELSE IF taskComplexity >= 700 THEN -100
                ELSE 0
          [] agentType \in {"gmi", "gemini"} ->
                IF taskComplexity >= 400 /\ taskComplexity <= 600 THEN 50
                ELSE 0
          [] OTHER -> 0

computeAgentTypeBonus(agentType, rec) ==
    LET taskComplexity == estimateTaskComplexity(rec)
    IN  CASE agentType \in {"cc", "claude"} ->
                IF taskComplexity >= 700 THEN 150
                ELSE IF taskComplexity <= 300 THEN -50
                ELSE 0
          [] agentType \in {"cod", "codex"} ->
                IF taskComplexity <= 300 THEN 150
                ELSE IF taskComplexity >= 700 THEN -100
                ELSE 0
          [] agentType \in {"gmi", "gemini"} ->
                IF taskComplexity >= 400 /\ taskComplexity <= 600 THEN 50
                ELSE 0
          [] OTHER -> 0

computeCriticalPathBonus(breakdown) ==
    (IF breakdown.Pagerank > 50 THEN breakdown.Pagerank * 2 ELSE 0)
    + (IF breakdown.BlockerRatio > 50 THEN (breakdown.BlockerRatio * 3) \div 2 ELSE 0)
    + (IF breakdown.TimeToImpact > 40 THEN 50 ELSE 0)

\* reservations[agent.PaneID] of a Go map: nil when the key is absent
MapGet(reservations, paneID) ==
    IF paneID \in DOMAIN reservations THEN reservations[paneID] ELSE <<>>

computeFileOverlapPenalty(agent, reservations) ==
    LET fromMap == MapGet(reservations, agent.PaneID)
        agentReservations == IF Len(fromMap) = 0 THEN agent.Reservations ELSE fromMap
        count == Len(agentReservations)
    IN  IF count = 0 THEN 0
        ELSE IF count <= 2 THEN 50
        ELSE IF count <= 5 THEN 100
        ELSE 200

\* computeContextPenalty taking the usage itself, not the excess
computeContextPenalty_noExcess(contextUsage, threshold) ==
    IF contextUsage <= threshold THEN 0
    ELSE contextUsage * 5

\* (excess / 100) * 0.5, in thousandths: excess * 5
computeContextPenalty(contextUsage, threshold) ==
    IF contextUsage <= threshold THEN 0
    ELSE (contextUsage - threshold) * 5

computeProfileTagBonus(profile, taskTags, weight) ==
    IF profile.Tags = {} \/ taskTags = {} THEN 0
    ELSE LET matches == Cardinality(taskTags \cap profile.Tags)
         IN  IF matches = 0 THEN 0
             ELSE (matches * weight) \div Cardinality(profile.Tags)

computeFocusPatternBonus(profile, mentionedFiles, weight) ==
    IF profile.FocusPatterns = {} \/ Len(mentionedFiles) = 0 THEN 0
    ELSE LET matches == Cardinality(
                 {i \in 1..Len(mentionedFiles) :
                     \E pattern \in profile.FocusPatterns :
                         matchFocusPattern(pattern, mentionedFiles[i])})
         IN  IF matches = 0 THEN 0
             ELSE (matches * weight) \div Len(mentionedFiles)

\* scoreAssignment; agentIdx and recIdx stand for the Agent and Recommendation
\* pointers of the ScoredAssignment
scoreAssignment(agentIdx, recIdx, agents, recs, cfg, reservations) ==
    LET agent == agents[agentIdx]
        rec   == recs[recIdx]
        useProfile == cfg.UseAgentProfiles /\ agent.Profile # {}
        profile == CHOOSE p \in agent.Profile : TRUE
        tagWeight == IF cfg.ProfileTagBoostWeight = 0
                     THEN 150 ELSE cfg.ProfileTagBoostWeight
        patternWeight == IF cfg.FocusPatternBoostWeight = 0
                         THEN 100 ELSE cfg.FocusPatternBoostWeight
        threshold == IF cfg.ContextThreshold = 0 THEN 80 ELSE cfg.ContextThreshold
        breakdown ==
            [BaseScore |-> rec.Score,
             AgentTypeBonus |->
                IF cfg.UseAgentProfiles
                THEN computeAgentTypeBonus(agent.AgentType, rec) ELSE 0,
             ProfileTagBonus |->
                IF useProfile
                THEN computeProfileTagBonus(profile, ExtractTaskTags(rec.Title), tagWeight)
                ELSE 0,
             FocusPatternBonus |->
                IF useProfile
                THEN computeFocusPatternBonus(profile, ExtractMentionedFiles(rec.Title),
                                              patternWeight)
                ELSE 0,
             CriticalPathBonus |->
                IF cfg.PreferCriticalPath /\ rec.Breakdown # {}
                THEN computeCriticalPathBonus(CHOOSE b \in rec.Breakdown : TRUE)
                ELSE 0,
             FileOverlapPenalty |->
                IF cfg.PenalizeFileOverlap
                THEN computeFileOverlapPenalty(agent, reservations) ELSE 0,
             ContextPenalty |->
                IF cfg.BudgetAware
                THEN computeContextPenalty(agent.ContextUsage, threshold) ELSE 0]
        totalScore == breakdown.BaseScore + breakdown.AgentTypeBonus
                      + breakdown.CriticalPathBonus + breakdown.ProfileTagBonus
                      + breakdown.FocusPatternBonus - breakdown.FileOverlapPenalty
                      - breakdown.ContextPenalty
    IN  [BeadID |-> rec.ID,
         AgentPaneID |-> agent.PaneID,
         Agent |-> agentIdx,
         Recommendation |-> recIdx,
         TotalScore |-> totalScore,
         ScoreBreakdown |-> breakdown]

\* scoreLoop without the skip of blocked items
RECURSIVE scoreLoop_noBlockedSkip(_, _, _, _, _, _)
scoreLoop_noBlockedSkip(agentIdx, recIdx, agents, recs, cfg, reservations) ==
    IF agentIdx > Len(agents) THEN <<>>
    ELSE IF recIdx > Len(recs)
         THEN scoreLoop_noBlockedSkip(agentIdx + 1, 1, agents, recs, cfg, reservations)
    ELSE LET rest == scoreLoop_noBlockedSkip(agentIdx, recIdx + 1, agents, recs, cfg,
                                             reservations)
             sc   == scoreAssignment(agentIdx, recIdx, agents, recs, cfg, reservations)
         IN  IF sc.TotalScore > 0 THEN <<sc>> \o rest
             ELSE rest

\* the nested loops that score all agent-task combinations, agent by agent and
\* per agent recommendation by recommendation
RECURSIVE scoreLoop(_, _, _, _, _, _)
scoreLoop(agentIdx, recIdx, agents, recs, cfg, reservations) ==
    IF agentIdx > Len(agents) THEN <<>>
    ELSE IF recIdx > Len(recs)
         THEN scoreLoop(agentIdx + 1, 1, agents, recs, cfg, reservations)
    ELSE LET rest == scoreLoop(agentIdx, recIdx + 1, agents, recs, cfg, reservations)
             sc   == scoreAssignment(agentIdx, recIdx, agents, recs, cfg, reservations)
         IN  IF recs[recIdx].Status = "blocked" THEN rest
             ELSE IF sc.TotalScore > 0 THEN <<sc>> \o rest
             ELSE rest

Swap(c, i, j) == [c EXCEPT ![i] = c[j], ![j] = c[i]]

\* inner loop of sortScoredAssignments: for j := i + 1; j < len; j++
RECURSIVE sortInner(_, _, _)
sortInner(c, i, j) ==
    IF j > Len(c) THEN c
    ELSE sortInner(IF c[j].TotalScore > c[i].TotalScore THEN Swap(c, i, j) ELSE c,
                   i, j + 1)

\* sortOuter that ends after its first pass: only the highest score is moved
\* to the front
sortOuter_onePass(c, i) ==
    IF i >= Len(c) THEN c
    ELSE sortInner(c, i, i + 1)

\* outer loop of sortScoredAssignments: for i := 0; i < len - 1; i++
RECURSIVE sortOuter(_, _)
sortOuter(c, i) ==
    IF i >= Len(c) THEN c
    ELSE sortOuter(sortInner(c, i, i + 1), i + 1)

sortScoredAssignments(candidates) == sortOuter(candidates, 1)

\* selectLoop that tracks the assigned agents only
RECURSIVE selectLoop_noTaskCheck(_, _, _, _)
selectLoop_noTaskCheck(candidates, k, assignedAgents, assignedTasks) ==
    IF k > Len(candidates) THEN <<>>
    ELSE LET candidate == candidates[k]
         IN  IF candidate.AgentPaneID \in assignedAgents
             THEN selectLoop_noTaskCheck(candidates, k + 1, assignedAgents, assignedTasks)
             ELSE <<candidate>>
                  \o selectLoop_noTaskCheck(candidates, k + 1,
                                            assignedAgents \cup {candidate.AgentPaneID},
                                            assignedTasks \cup {candidate.BeadID})

\* selectLoop that ends at the first conflict (break for continue)
RECURSIVE selectLoop_stopAtConflict(_, _, _, _)
selectLoop_stopAtConflict(candidates, k, assignedAgents, assignedTasks) ==
    IF k > Len(candidates) THEN <<>>
    ELSE LET candidate == candidates[k]
         IN  IF candidate.AgentPaneID \in assignedAgents
                \/ candidate.BeadID \in assignedTasks
             THEN <<>>
             ELSE <<candidate>>
                  \o selectLoop_stopAtConflict(candidates, k + 1,
                                               assignedAgents \cup {candidate.AgentPaneID},
                                               assignedTasks \cup {candidate.BeadID})

\* the selection loop over the sorted candidates
RECURSIVE selectLoop(_, _, _, _)
selectLoop(candidates, k, assignedAgents, assignedTasks) ==
    IF k > Len(candidates) THEN <<>>
    ELSE LET candidate == candidates[k]
         IN  IF candidate.AgentPaneID \in assignedAgents
                \/ candidate.BeadID \in assignedTasks
             THEN selectLoop(candidates, k + 1, assignedAgents, assignedTasks)
             ELSE <<candidate>>
                  \o selectLoop(candidates, k + 1,
                                assignedAgents \cup {candidate.AgentPaneID},
                                assignedTasks \cup {candidate.BeadID})

ScoreAndSelectAssignments(agents, recs, cfg, reservations) ==
    IF Len(agents) = 0 \/ Len(recs) = 0 THEN <<>>
    ELSE selectLoop(
            sortScoredAssignments(scoreLoop(1, 1, agents, recs, cfg, reservations)),
            1, {}, {})

\* findBestMatch: the first recommendation that is not blocked.  The result is
\* the set holding the assignment, {} for (nil, nil).
RECURSIVE findBestMatch(_, _, _)
findBestMatch(agent, recs, recIdx) ==
    IF recIdx > Len(recs) THEN {}
    ELSE IF recs[recIdx].Status = "blocked" THEN findBestMatch(agent, recs, recIdx + 1)
    ELSE {[BeadID |-> recs[recIdx].ID,
           BeadTitle |-> recs[recIdx].Title,
           AgentPaneID |-> agent.PaneID,
           AgentType |-> agent.AgentType,
           AgentMailName |-> agent.AgentMailName,
           Priority |-> recs[recIdx].Priority,
           Score |-> recs[recIdx].Score,
           Recommendation |-> recIdx]}

\* capacity of the c.events channel
EventCapacity == 64

\* removeRecommendation that removes nothing
removeRecommendation_keepAll(recs, id) == recs

\* removeRecommendation(recs, id)
removeRecommendation(recs, id) == SelectSeq(recs, LAMBDA r : r.ID # id)

\* attemptAssignment; sendOk is FALSE when c.mailClient.SendMessage fails
attemptAssignment(assignment, hasMailClient, sendOk) ==
    IF hasMailClient /\ assignment.AgentMailName # ""
    THEN IF sendOk
         THEN [Success |-> TRUE, Assignment |-> assignment, Error |-> "",
               MessageSent |-> TRUE]
         ELSE [Success |-> FALSE, Assignment |-> assignment,
               Error |-> "sending message", MessageSent |-> FALSE]
    ELSE [Success |-> TRUE, Assignment |-> assignment, Error |-> "",
          MessageSent |-> FALSE]

\* the CoordinatorEvent AssignWork emits for a successful assignment
WorkAssignedEvent(agent, assignment) ==
    [Type |-> "work_assigned", AgentID |-> agent.PaneID,
     Details |-> [bead_id |-> assignment.BeadID,
                  bead_title |-> assignment.BeadTitle,
                  agent_type |-> agent.AgentType,
                  score |-> assignment.Score]]

\* select { case c.events <- ev: default: }: the event is dropped when the
\* channel is full
TrySend(chan, ev) == IF Len(chan) < EventCapacity THEN Append(chan, ev) ELSE chan

\* assignLoop with a blocking send (c.events <- ev without the default case):
\* with the channel full and nobody reading, the loop gets no further
RECURSIVE assignLoop_blockingSend(_, _, _, _, _, _)
assignLoop_blockingSend(agents, k, recs, hasMailClient, sendOk, chan) ==
    IF k > Len(agents) \/ Len(recs) = 0
    THEN [results |-> <<>>, events |-> chan]
    ELSE LET found == findBestMatch(agents[k], recs, 1)
         IN  IF found = {}
             THEN assignLoop_blockingSend(agents, k + 1, recs, hasMailClient,
                                          sendOk, chan)
             ELSE LET assignment == CHOOSE a \in found : TRUE
                      res   == attemptAssignment(assignment, hasMailClient, sendOk[k])
                  IN  IF res.Success /\ Len(chan) >= EventCapacity
                      THEN [results |-> <<>>, events |-> chan]
                      ELSE LET recs2 == IF res.Success
                                        THEN removeRecommendation(recs, assignment.BeadID)
                                        ELSE recs
                               chan2 == IF res.Success
                                        THEN Append(chan, WorkAssignedEvent(agents[k], assignment))
                                        ELSE chan
                               rest  == assignLoop_blockingSend(agents, k + 1, recs2,
                                                                hasMailClient, sendOk, chan2)
                           IN  [results |-> <<res>> \o rest.results,
                                events |-> rest.events]

\* assignLoop that gives up at the first failed attempt
RECURSIVE assignLoop_abortOnFailure(_, _, _, _, _, _)
assignLoop_abortOnFailure(agents, k, recs, hasMailClient, sendOk, chan) ==
    IF k > Len(agents) \/ Len(recs) = 0
    THEN [results |-> <<>>, events |-> chan]
    ELSE LET found == findBestMatch(agents[k], recs, 1)
         IN  IF found = {}
             THEN assignLoop_abortOnFailure(agents, k + 1, recs, hasMailClient,
                                            sendOk, chan)
             ELSE LET assignment == CHOOSE a \in found : TRUE
                      res   == attemptAssignment(assignment, hasMailClient, sendOk[k])
                  IN  IF ~res.Success
                      THEN [results |-> <<res>>, events |-> chan]
                      ELSE LET recs2 == removeRecommendation(recs, assignment.BeadID)
                               chan2 == TrySend(chan, WorkAssignedEvent(agents[k], assignment))
                               rest  == assignLoop_abortOnFailure(agents, k + 1, recs2,
                                                                  hasMailClient, sendOk, chan2)
                           IN  [results |-> <<res>> \o rest.results,
                                events |-> rest.events]

\* the loop of AssignWork over the idle agents; sendOk[k] is the outcome of
\* the mail sent for the k-th agent
RECURSIVE assignLoop(_, _, _, _, _, _)
assignLoop(agents, k, recs, hasMailClient, sendOk, chan) ==
    IF k > Len(agents) \/ Len(recs) = 0
    THEN [results |-> <<>>, events |-> chan]
    ELSE LET found == findBestMatch(agents[k], recs, 1)
         IN  IF found = {}
             THEN assignLoop(agents, k + 1, recs, hasMailClient, sendOk, chan)
             ELSE LET assignment == CHOOSE a \in found : TRUE
                      res   == attemptAssignment(assignment, hasMailClient, sendOk[k])
                      recs2 == IF res.Success
                               THEN removeRecommendation(recs, assignment.BeadID)
                               ELSE recs
                      chan2 == IF res.Success
                               THEN TrySend(chan, WorkAssignedEvent(agents[k], assignment))
                               ELSE chan
                      rest  == assignLoop(agents, k + 1, recs2, hasMailClient,
                                          sendOk, chan2)
                  IN  [results |-> <<res>> \o rest.results, events |-> rest.events]

\* c.GetIdleAgents(): the agents of the registry whose state is idle or
\* awaiting-input, in registry order
GetIdleAgents(all) ==
    SelectSeq(all, LAMBDA a : a.Status \in {"idle", "awaiting-input"})

\* c.GetAgentByPaneID: the registry entry of the pane, {} when unknown
GetAgentByPaneID(agents, paneID) ==
    {agents[i] : i \in {j \in 1..Len(agents) : agents[j].PaneID = paneID}}

\* no pipeline is running
PipeIdle ==
    /\ stages = <<>>
    /\ panes = <<>>
    /\ stageIdx = 1
    /\ ppc = "off"
    /\ stagePaneID = ""
    /\ prompt = <<>>
    /\ previousOutput = <<>>
    /\ lastPaneID = ""
    /\ ctxDone = FALSE
    /\ result = {}
    /\ sent = <<>>
    /\ finished = <<>>
    /\ failed = {}
    /\ lostMid = FALSE
    /\ sentAtCancel = -1

\* the coordinator has not ticked
CoordIdle ==
    /\ registry = <<>>
    /\ delivered = {}
    /\ reselected = {}
    /\ ticks = 0
    /\ autoAssign = FALSE
    /\ mailClient = FALSE
    /\ results = <<>>
    /\ events = <<>>

\* no command was checked
PolicyIdle ==
    /\ policy = [Allowed |-> <<>>, Blocked |-> <<>>, ApprovalRequired |-> <<>>]
    /\ command = ""
    /\ match = {}

\* no state was detected
DetectIdle ==
    /\ scrollback = <<>>
    /\ agentState = {}

\* nothing was scanned
RedactIdle ==
    /\ allMatches = <<>>
    /\ deduped = {}
    /\ redacted = {}

\* the absent agent.json
NoFile == [exists |-> FALSE]

\* no session agent was saved, loaded or registered
SessionIdle ==
    /\ agentFile = NoFile
    /\ savePc = "idle"
    /\ saveInfo = {}
    /\ loaded = {}
    /\ registerCalls = <<>>
    /\ registered = {}

\* no watcher was created
WatchIdle ==
    /\ recursive = FALSE
    /\ eventFilter = {}
    /\ watchedPaths = {}
    /\ pendingEvents = <<>>
    /\ closed = FALSE
    /\ hpc = "idle"
    /\ curEvent = {}
    /\ timerArmed = FALSE
    /\ running = <<>>
    /\ handled = <<>>
    /\ arrived = <<>>
    /\ addedFrom = {}
    /\ roundTrip = {}

\* no quota is being fetched
QuotaIdle ==
    /\ provider = ""
    /\ qpc = "idle"
    /\ qInitial = <<>>
    /\ paneSent = <<>>
    /\ quotaInfo = {}

ScoreIdle ==
    /\ idleAgents = <<>>
    /\ recommendations = <<>>
    /\ config = DefaultScoreConfig
    /\ existingReservations = <<>>
    /\ selected = <<>>
    /\ suggestion = {}
    /\ scored = {}
    /\ spc = "build"

--------------------------------------------------------------------------
\* Extractor state machine: two captures of one pane, then the extraction

ExtractIdle ==
    /\ beforeOutput = <<>>
    /\ afterOutput = <<>>
    /\ output = <<>>
    /\ fault = FALSE
    /\ xpc = "idle"

InitExtract ==
    /\ DetectIdle
    /\ RedactIdle
    /\ SessionIdle
    /\ ExtractIdle
    /\ ScoreIdle
    /\ PipeIdle
    /\ CoordIdle
    /\ PolicyIdle
    /\ WatchIdle
    /\ QuotaIdle

\* tmux.CapturePaneOutput before the prompt and after the pane went idle
Capture ==
    /\ xpc = "idle"
    /\ \E b \in Snapshots, a \in Snapshots :
          /\ beforeOutput' = b
          /\ afterOutput' = a
    /\ xpc' = "captured"
    /\ UNCHANGED <<output, fault>>
    /\ UNCHANGED scoreVars
    /\ UNCHANGED <<pipeVars, coordVars, policyVars, detectVars, redactVars, sessionVars,
                   watchVars, quotaVars>>

\* output := extractNewOutput(beforeOutput, afterOutput)
Extract ==
    /\ xpc = "captured"
    /\ LET r == extractNewOutput(beforeOutput, afterOutput)
       IN  /\ fault' = (r.kind = "panic")
           /\ output' = r.out
    /\ xpc' = "extracted"
    /\ UNCHANGED <<beforeOutput, afterOutput>>
    /\ UNCHANGED scoreVars
    /\ UNCHANGED <<pipeVars, coordVars, policyVars, detectVars, redactVars, sessionVars,
                   watchVars, quotaVars>>

NextExtract == Capture \/ Extract

SpecExtract == InitExtract /\ [][NextExtract]_vars

--------------------------------------------------------------------------
\* Scorer state machine: the registry supplies idle agents, the work graph
\* supplies recommendations, then the scorer (or SuggestAssignment) runs

\* the persona of TestScoreAssignmentWithProfile
TesterProfile ==
    [Tags |-> {"testing", "qa", "quality"},
     FocusPatterns |-> {"**/*_test.go", "tests/**"}]

\* agents the registry may report (PaneID is given on discovery)
AgentKinds ==
    {[AgentType |-> "cc", AgentMailName |-> "BlueFox", ContextUsage |-> 30,
      Reservations |-> <<>>, Profile |-> {}],
     [AgentType |-> "cod", AgentMailName |-> "", ContextUsage |-> 50,
      Reservations |-> <<>>, Profile |-> {}],
     [AgentType |-> "cc", AgentMailName |-> "", ContextUsage |-> 95,
      Reservations |-> <<"a.go", "b.go", "c.go">>, Profile |-> {}],
     [AgentType |-> "gmi", AgentMailName |-> "", ContextUsage |-> 30,
      Reservations |-> <<>>, Profile |-> {TesterProfile}]}

\* work items the work graph may return (ID is given by position; the last
\* kind repeats the id of the first item of the list)
RecKinds ==
    {[Title |-> "Epic task", Type |-> "epic", Priority |-> 2, Status |-> "open",
      Score |-> 800, UnblocksIDs |-> <<>>, Breakdown |-> {}, Dup |-> FALSE],
     [Title |-> "Quick fix", Type |-> "chore", Priority |-> 2, Status |-> "open",
      Score |-> 600, UnblocksIDs |-> <<>>, Breakdown |-> {}, Dup |-> FALSE],
     [Title |-> "Blocked", Type |-> "task", Priority |-> 2, Status |-> "blocked",
      Score |-> 900, UnblocksIDs |-> <<>>, Breakdown |-> {}, Dup |-> FALSE],
     [Title |-> "Add unit tests for internal/config/config_test.go",
      Type |-> "task", Priority |-> 0, Status |-> "open",
      Score |-> 500, UnblocksIDs |-> <<>>, Breakdown |-> {}, Dup |-> FALSE],
     [Title |-> "Quick fix", Type |-> "chore", Priority |-> 2, Status |-> "open",
      Score |-> 50, UnblocksIDs |-> <<>>, Breakdown |-> {}, Dup |-> FALSE],
     [Title |-> "Epic task", Type |-> "epic", Priority |-> 3, Status |-> "open",
      Score |-> 700, UnblocksIDs |-> <<"W7", "W8", "W9">>,
      Breakdown |-> {[Pagerank |-> 60, BlockerRatio |-> 100, TimeToImpact |-> 50]},
      Dup |-> FALSE],
     [Title |-> "Quick fix", Type |-> "chore", Priority |-> 2, Status |-> "open",
      Score |-> 600, UnblocksIDs |-> <<>>, Breakdown |-> {}, Dup |-> TRUE]}

PaneIDOf(i) == "%" \o ToString(i)
BeadIDOf(i) == "W" \o ToString(i)

MkAgent(kind, i) ==
    [PaneID |-> PaneIDOf(i), AgentType |-> kind.AgentType,
     AgentMailName |-> kind.AgentMailName, ContextUsage |-> kind.ContextUsage,
     Reservations |-> kind.Reservations, Profile |-> kind.Profile]

MkRec(kind, i) ==
    [ID |-> IF kind.Dup THEN BeadIDOf(1) ELSE BeadIDOf(i),
     Title |-> kind.Title, Type |-> kind.Type, Priority |-> kind.Priority,
     Status |-> kind.Status, Score |-> kind.Score,
     UnblocksIDs |-> kind.UnblocksIDs, Breakdown |-> kind.Breakdown]

\* existing-reservations maps the caller may pass: nil, or one that holds a
\* reservation of the first pane
ReservationMaps == {<<>>, [paneID \in {"%1"} |-> <<"x.go">>]}

InitScore ==
    /\ DetectIdle
    /\ RedactIdle
    /\ SessionIdle
    /\ ExtractIdle
    /\ PipeIdle
    /\ CoordIdle
    /\ PolicyIdle
    /\ WatchIdle
    /\ QuotaIdle
    /\ idleAgents = <<>>
    /\ recommendations = <<>>
    /\ config = DefaultScoreConfig
    /\ existingReservations \in ReservationMaps
    /\ selected = <<>>
    /\ suggestion = {}
    /\ scored = {}
    /\ spc = "build"

\* the registry reports one more idle agent (a new pane id)
DiscoverAgent ==
    /\ spc = "build"
    /\ Len(idleAgents) < MaxAgents
    /\ \E kind \in AgentKinds :
          idleAgents' = Append(idleAgents, MkAgent(kind, Len(idleAgents) + 1))
    /\ UNCHANGED <<recommendations, config, existingReservations,
                   selected, suggestion, scored, spc>>
    /\ UNCHANGED extractVars
    /\ UNCHANGED <<pipeVars, coordVars, policyVars, detectVars, redactVars, sessionVars,
                   watchVars, quotaVars>>

\* the work graph returns one more recommendation
AddRecommendation ==
    /\ spc = "build"
    /\ Len(recommendations) < MaxRecs
    /\ \E kind \in RecKinds :
          recommendations' =
              Append(recommendations, MkRec(kind, Len(recommendations) + 1))
    /\ UNCHANGED <<idleAgents, config, existingReservations,
                   selected, suggestion, scored, spc>>
    /\ UNCHANGED extractVars
    /\ UNCHANGED <<pipeVars, coordVars, policyVars, detectVars, redactVars, sessionVars,
                   watchVars, quotaVars>>

\* selected := ScoreAndSelectAssignments(idleAgents, triage, config, reservations)
ScoreAndSelect ==
    /\ spc = "build"
    /\ selected' = ScoreAndSelectAssignments(idleAgents, recommendations, config,
                                             existingReservations)
    /\ spc' = "selected"
    /\ UNCHANGED <<idleAgents, recommendations, config, existingReservations,
                   suggestion, scored>>
    /\ UNCHANGED extractVars
    /\ UNCHANGED <<pipeVars, coordVars, policyVars, detectVars, redactVars, sessionVars,
                   watchVars, quotaVars>>

\* SuggestAssignment(paneID): findBestMatch for a known pane, an error for an
\* unknown one (suggestion stays nil)
SuggestAssignment ==
    /\ spc = "build"
    /\ \E i \in 1..(Len(idleAgents) + 1) :
          LET found == GetAgentByPaneID(idleAgents, PaneIDOf(i))
          IN  suggestion' =
                 IF found = {} \/ Len(recommendations) = 0 THEN {}
                 ELSE findBestMatch(CHOOSE a \in found : TRUE, recommendations, 1)
    /\ spc' = "suggested"
    /\ UNCHANGED <<idleAgents, recommendations, config, existingReservations,
                   selected, scored>>
    /\ UNCHANGED extractVars
    /\ UNCHANGED <<pipeVars, coordVars, policyVars, detectVars, redactVars, sessionVars,
                   watchVars, quotaVars>>

NextScore == DiscoverAgent \/ AddRecommendation \/ ScoreAndSelect \/ SuggestAssignment

SpecScore == InitScore /\ [][NextScore]_vars

--------------------------------------------------------------------------
\* Budget state machine: one scoreAssignment call for every context usage and
\* every configured threshold of the percentage scale

InitBudget ==
    /\ DetectIdle
    /\ RedactIdle
    /\ SessionIdle
    /\ ExtractIdle
    /\ PipeIdle
    /\ CoordIdle
    /\ PolicyIdle
    /\ WatchIdle
    /\ QuotaIdle
    /\ \E usage \in 0..MaxPercent, kind \in AgentKinds :
          idleAgents = <<[MkAgent(kind, 1) EXCEPT !.ContextUsage = usage]>>
    /\ \E kind \in RecKinds : recommendations = <<MkRec(kind, 1)>>
    /\ \E threshold \in 0..MaxPercent, aware \in BOOLEAN :
          config = [DefaultScoreConfig EXCEPT !.ContextThreshold = threshold,
                                              !.BudgetAware = aware]
    /\ existingReservations = <<>>
    /\ selected = <<>>
    /\ suggestion = {}
    /\ scored = {}
    /\ spc = "build"

\* scored := scoreAssignment(agent, rec, config, existingReservations)
ScoreOne ==
    /\ spc = "build"
    /\ Len(idleAgents) = 1
    /\ Len(recommendations) = 1
    /\ scored' = {scoreAssignment(1, 1, idleAgents, recommendations, config,
                                  existingReservations)}
    /\ spc' = "scored"
    /\ UNCHANGED <<idleAgents, recommendations, config, existingReservations,
                   selected, suggestion>>
    /\ UNCHANGED extractVars
    /\ UNCHANGED <<pipeVars, coordVars, policyVars, detectVars, redactVars, sessionVars,
                   watchVars, quotaVars>>

NextBudget == ScoreOne

SpecBudget == InitBudget /\ [][NextBudget]_vars

--------------------------------------------------------------------------
\* Overlap state machine: one scoreAssignment call for every reservation count
\* of the agent and every existing-reservations map of the caller

\* a list of n reserved file patterns
Files(n) == [i \in 1..n |-> "f" \o ToString(i) \o ".go"]

\* maps the caller may pass: nil (no key), or a map with one key, the pane of
\* the agent or another pane, holding 0..MaxReserved patterns
OverlapMaps ==
    {<<>>} \cup {[paneID \in {PaneIDOf(i)} |-> Files(m)] :
                    i \in 1..2, m \in 0..MaxReserved}

InitOverlap ==
    /\ DetectIdle
    /\ RedactIdle
    /\ SessionIdle
    /\ ExtractIdle
    /\ PipeIdle
    /\ CoordIdle
    /\ PolicyIdle
    /\ WatchIdle
    /\ QuotaIdle
    /\ \E n \in 0..MaxReserved, kind \in AgentKinds :
          idleAgents = <<[MkAgent(kind, 1) EXCEPT !.Reservations = Files(n)]>>
    /\ \E kind \in RecKinds : recommendations = <<MkRec(kind, 1)>>
    /\ \E penalize \in BOOLEAN :
          config = [DefaultScoreConfig EXCEPT !.PenalizeFileOverlap = penalize]
    /\ existingReservations \in OverlapMaps
    /\ selected = <<>>
    /\ suggestion = {}
    /\ scored = {}
    /\ spc = "build"

NextOverlap == ScoreOne

SpecOverlap == InitOverlap /\ [][NextOverlap]_vars

--------------------------------------------------------------------------
\* Pipeline state machine: Execute runs the stages of one pipeline while the
\* session loses panes and the caller may cancel the context

\* stages a pipeline may hold
StageKinds ==
    {[AgentType |-> "Claude", Prompt |-> <<"g", "o">>,      Model |-> ""],
     [AgentType |-> "cod",    Prompt |-> <<"f", "i", "x">>, Model |-> ""],
     [AgentType |-> "gmi",    Prompt |-> <<"g", "o">>,      Model |-> ""]}

\* sessions the pipeline may run in
PaneLists ==
    {<<[ID |-> "%1", Type |-> "cc",  Variant |-> "sonnet"],
       [ID |-> "%2", Type |-> "cod", Variant |-> ""]>>,
     <<[ID |-> "%0", Type |-> "user", Variant |-> ""],
       [ID |-> "%1", Type |-> "cc",  Variant |-> "sonnet"]>>}

\* what tmux.CapturePaneOutput may return for a pane
PaneOutputs == {<<"a">>, <<"a", "b">>, Rep("b", chunkSize + 1)}

StageLists == UNION {[1..n -> StageKinds] : n \in 0..MaxStages}

PaneAlive(id) == \E k \in 1..Len(panes) : panes[k].ID = id

Running == ppc \in {"find", "before", "send", "sleep", "wait", "after"}

InitPipe ==
    /\ DetectIdle
    /\ RedactIdle
    /\ SessionIdle
    /\ ExtractIdle
    /\ ScoreIdle
    /\ CoordIdle
    /\ PolicyIdle
    /\ WatchIdle
    /\ QuotaIdle
    /\ stages \in StageLists
    /\ panes \in PaneLists
    /\ stageIdx = 1
    /\ ppc = "find"
    /\ stagePaneID = ""
    /\ prompt = <<>>
    /\ previousOutput = <<>>
    /\ lastPaneID = ""
    /\ ctxDone = FALSE
    /\ result = {}
    /\ sent = <<>>
    /\ finished = <<>>
    /\ failed = {}
    /\ lostMid = FALSE
    /\ sentAtCancel = -1

\* return fmt.Errorf("stage %d <wrap>: %w", i+1, err) retried in place: the stage
\* is run again
Abort_retryStage(i, wrap, cause) ==
    [ppc |-> "find", stageIdx |-> i, result |-> {}]

\* return fmt.Errorf(...) replaced by continue: the loop goes on
Abort_nextStage(i, wrap, cause) ==
    [ppc |-> "find", stageIdx |-> i + 1, result |-> {}]

\* return fmt.Errorf("stage %d <wrap>: %w", i+1, err)
Abort(i, wrap, cause) ==
    [ppc |-> "returned", stageIdx |-> i,
     result |-> {[kind |-> "error", stage |-> i, wrap |-> wrap, cause |-> cause]}]

\* s.State == status.StateIdle, taken for true whatever the state
idleObserved_any(state) == TRUE

\* s.State == status.StateIdle
idleObserved(state) == state = "idle"

\* the for statement has run out of stages: return nil
ReturnNil ==
    /\ ppc = "find"
    /\ stageIdx > Len(stages)
    /\ ppc' = "returned"
    /\ result' = {[kind |-> "ok"]}
    /\ UNCHANGED <<stages, panes, stageIdx, stagePaneID, prompt, previousOutput,
                   lastPaneID, ctxDone, sent, finished, failed, lostMid,
                   sentAtCancel>>
    /\ UNCHANGED <<extractVars, scoreVars, coordVars, policyVars, detectVars,
                   redactVars, sessionVars,
                   watchVars, quotaVars>>

\* 1. paneID, err := findPaneForStage(p.Session, stage.AgentType, stage.Model)
FindPane ==
    /\ ppc = "find"
    /\ stageIdx <= Len(stages)
    /\ \E getPanesOk \in BOOLEAN :
          LET stage == stages[stageIdx]
              found == findPaneForStage(getPanesOk, panes, stage.AgentType, stage.Model)
              abort == Abort(stageIdx, "failed", found.err)
          IN  IF found.err # ""
              THEN /\ ppc' = abort.ppc
                   /\ stageIdx' = abort.stageIdx
                   /\ result' = abort.result
                   /\ failed' = failed \cup {[stage |-> stageIdx, step |-> "bind"]}
                   /\ UNCHANGED stagePaneID
              ELSE /\ ppc' = "before"
                   /\ stagePaneID' = found.id
                   /\ UNCHANGED <<stageIdx, result, failed>>
    /\ UNCHANGED <<stages, panes, prompt, previousOutput, lastPaneID, ctxDone,
                   sent, finished, lostMid, sentAtCancel>>
    /\ UNCHANGED <<extractVars, scoreVars, coordVars, policyVars, detectVars,
                   redactVars, sessionVars,
                   watchVars, quotaVars>>

\* beforeOutput, err := tmux.CapturePaneOutput(paneID, 2000), an error read as
\* "", and 2. the prompt is prepared
CaptureBefore ==
    /\ ppc = "before"
    /\ \E ok \in (IF PaneAlive(stagePaneID) THEN BOOLEAN ELSE {FALSE}),
          snapshot \in PaneOutputs :
          beforeOutput' = IF ok THEN snapshot ELSE <<>>
    /\ prompt' = preparePrompt(stages[stageIdx].Prompt, previousOutput,
                               stagePaneID, lastPaneID)
    /\ ppc' = "send"
    /\ UNCHANGED <<afterOutput, output, fault, xpc>>
    /\ UNCHANGED <<stages, panes, stageIdx, stagePaneID, previousOutput,
                   lastPaneID, ctxDone, result, sent, finished, failed,
                   lostMid, sentAtCancel>>
    /\ UNCHANGED <<scoreVars, coordVars, policyVars, detectVars, redactVars, sessionVars,
                   watchVars, quotaVars>>

\* SendPrompt followed at once by waitForIdle, without the sleep
SendPrompt_noDebounce ==
    /\ ppc = "send"
    /\ \E ok \in (IF PaneAlive(stagePaneID) THEN BOOLEAN ELSE {FALSE}) :
          LET abort == Abort(stageIdx, "sending prompt", "tmux")
          IN  /\ sent' = Append(sent, [stage |-> stageIdx, pane |-> stagePaneID,
                                       keys |-> prompt, carried |-> previousOutput,
                                       ok |-> ok])
              /\ IF ok
                 THEN /\ ppc' = "wait"
                      /\ UNCHANGED <<stageIdx, result, failed>>
                 ELSE /\ ppc' = abort.ppc
                      /\ stageIdx' = abort.stageIdx
                      /\ result' = abort.result
                      /\ failed' = failed \cup {[stage |-> stageIdx, step |-> "inject"]}
    /\ UNCHANGED <<stages, panes, stagePaneID, prompt, previousOutput, lastPaneID,
                   ctxDone, finished, lostMid, sentAtCancel>>
    /\ UNCHANGED <<extractVars, scoreVars, coordVars, policyVars, detectVars,
                   redactVars, sessionVars,
                   watchVars, quotaVars>>

\* 3. tmux.PasteKeys(paneID, prompt, true)
SendPrompt ==
    /\ ppc = "send"
    /\ \E ok \in (IF PaneAlive(stagePaneID) THEN BOOLEAN ELSE {FALSE}) :
          LET abort == Abort(stageIdx, "sending prompt", "tmux")
          IN  /\ sent' = Append(sent, [stage |-> stageIdx, pane |-> stagePaneID,
                                       keys |-> prompt, carried |-> previousOutput,
                                       ok |-> ok])
              /\ IF ok
                 THEN /\ ppc' = "sleep"
                      /\ UNCHANGED <<stageIdx, result, failed>>
                 ELSE /\ ppc' = abort.ppc
                      /\ stageIdx' = abort.stageIdx
                      /\ result' = abort.result
                      /\ failed' = failed \cup {[stage |-> stageIdx, step |-> "inject"]}
    /\ UNCHANGED <<stages, panes, stagePaneID, prompt, previousOutput, lastPaneID,
                   ctxDone, finished, lostMid, sentAtCancel>>
    /\ UNCHANGED <<extractVars, scoreVars, coordVars, policyVars, detectVars,
                   redactVars, sessionVars,
                   watchVars, quotaVars>>

\* 4. time.Sleep(2 * time.Second), then waitForIdle starts its ticker
Debounce ==
    /\ ppc = "sleep"
    /\ ppc' = "wait"
    /\ UNCHANGED <<stages, panes, stageIdx, stagePaneID, prompt, previousOutput,
                   lastPaneID, ctxDone, result, sent, finished, failed, lostMid,
                   sentAtCancel>>
    /\ UNCHANGED <<extractVars, scoreVars, coordVars, policyVars, detectVars,
                   redactVars, sessionVars,
                   watchVars, quotaVars>>


\* waitForIdle, case <-ctx.Done(): return ctx.Err()
WaitCancelled ==
    /\ ppc = "wait"
    /\ ctxDone
    /\ LET abort == Abort(stageIdx, "waiting for completion", "context canceled")
       IN  /\ ppc' = abort.ppc
           /\ stageIdx' = abort.stageIdx
           /\ result' = abort.result
    /\ failed' = failed \cup {[stage |-> stageIdx, step |-> "await-idle"]}
    /\ UNCHANGED <<stages, panes, stagePaneID, prompt, previousOutput, lastPaneID,
                   ctxDone, sent, finished, lostMid, sentAtCancel>>
    /\ UNCHANGED <<extractVars, scoreVars, coordVars, policyVars, detectVars,
                   redactVars, sessionVars,
                   watchVars, quotaVars>>

\* waitForIdle, case <-timeout: return fmt.Errorf("timeout waiting for agent")
WaitTimeout ==
    /\ ppc = "wait"
    /\ LET abort == Abort(stageIdx, "waiting for completion",
                          "timeout waiting for agent")
       IN  /\ ppc' = abort.ppc
           /\ stageIdx' = abort.stageIdx
           /\ result' = abort.result
    /\ failed' = failed \cup {[stage |-> stageIdx, step |-> "await-idle"]}
    /\ UNCHANGED <<stages, panes, stagePaneID, prompt, previousOutput, lastPaneID,
                   ctxDone, sent, finished, lostMid, sentAtCancel>>
    /\ UNCHANGED <<extractVars, scoreVars, coordVars, policyVars, detectVars,
                   redactVars, sessionVars,
                   watchVars, quotaVars>>

\* what detector.Detect(paneID) may return: an error for a pane that is gone
Detections ==
    IF PaneAlive(stagePaneID)
    THEN {[err |-> FALSE, State |-> "idle"], [err |-> FALSE, State |-> "working"]}
    ELSE {[err |-> TRUE, State |-> ""]}

\* waitForIdle, case <-ticker.C: an error of Detect and a state other than
\* idle both go round the loop
WaitTick ==
    /\ ppc = "wait"
    /\ \E s \in Detections :
          IF ~s.err /\ idleObserved(s.State)
          THEN /\ ppc' = "after"
               /\ finished' = Append(finished,
                      [stage |-> stageIdx, pane |-> stagePaneID, state |-> s.State,
                       captured |-> FALSE, before |-> beforeOutput,
                       after |-> <<>>, output |-> <<>>])
          ELSE UNCHANGED <<ppc, finished>>
    /\ UNCHANGED <<stages, panes, stageIdx, stagePaneID, prompt, previousOutput,
                   lastPaneID, ctxDone, result, sent, failed, lostMid, sentAtCancel>>
    /\ UNCHANGED <<extractVars, scoreVars, coordVars, policyVars, detectVars,
                   redactVars, sessionVars,
                   watchVars, quotaVars>>

\* 6. afterOutput, err := tmux.CapturePaneOutput(paneID, 2000); the extraction;
\* previousOutput = output; lastPaneID = paneID; the next iteration
CaptureAfter ==
    /\ ppc = "after"
    /\ \E ok \in (IF PaneAlive(stagePaneID) THEN BOOLEAN ELSE {FALSE}),
          snapshot \in PaneOutputs :
          LET abort == Abort(stageIdx, "capturing output", "tmux")
              r     == extractNewOutput(beforeOutput, snapshot)
          IN  IF ~ok
              THEN /\ ppc' = abort.ppc
                   /\ stageIdx' = abort.stageIdx
                   /\ result' = abort.result
                   /\ failed' = failed \cup {[stage |-> stageIdx, step |-> "after-capture"]}
                   /\ UNCHANGED <<afterOutput, output, fault, previousOutput,
                                  lastPaneID, finished>>
              ELSE IF r.kind = "panic"
              THEN /\ ppc' = "panicked"
                   /\ afterOutput' = snapshot
                   /\ fault' = TRUE
                   /\ UNCHANGED <<output, stageIdx, result, failed, previousOutput,
                                  lastPaneID, finished>>
              ELSE /\ ppc' = "find"
                   /\ stageIdx' = stageIdx + 1
                   /\ afterOutput' = snapshot
                   /\ output' = r.out
                   /\ previousOutput' = r.out
                   /\ lastPaneID' = stagePaneID
                   /\ finished' = [finished EXCEPT ![Len(finished)] =
                          [@ EXCEPT !.captured = TRUE, !.after = snapshot,
                                    !.output = r.out]]
                   /\ UNCHANGED <<fault, result, failed>>
    /\ UNCHANGED <<beforeOutput, xpc>>
    /\ UNCHANGED <<stages, panes, stagePaneID, prompt, ctxDone, sent,
                   lostMid, sentAtCancel>>
    /\ UNCHANGED <<scoreVars, coordVars, policyVars, detectVars, redactVars, sessionVars,
                   watchVars, quotaVars>>

\* the caller cancels ctx while Execute runs
Cancel ==
    /\ Running
    /\ ~ctxDone
    /\ ctxDone' = TRUE
    /\ sentAtCancel' = Len(sent)
    /\ UNCHANGED <<stages, panes, stageIdx, ppc, stagePaneID, prompt,
                   previousOutput, lastPaneID, result, sent, finished,
                   failed, lostMid>>
    /\ UNCHANGED <<extractVars, scoreVars, coordVars, policyVars, detectVars,
                   redactVars, sessionVars,
                   watchVars, quotaVars>>

\* a pane of the session disappears while Execute runs
PaneLost ==
    /\ Running
    /\ \E k \in 1..Len(panes) :
          /\ panes' = SubSeq(panes, 1, k - 1) \o SubSeq(panes, k + 1, Len(panes))
          /\ lostMid' = (lostMid \/ (ppc # "find" /\ panes[k].ID = stagePaneID))
    /\ UNCHANGED <<stages, stageIdx, ppc, stagePaneID, prompt, previousOutput,
                   lastPaneID, ctxDone, result, sent, finished, failed,
                   sentAtCancel>>
    /\ UNCHANGED <<extractVars, scoreVars, coordVars, policyVars, detectVars,
                   redactVars, sessionVars,
                   watchVars, quotaVars>>

NextPipe ==
    \/ ReturnNil
    \/ FindPane
    \/ CaptureBefore
    \/ SendPrompt
    \/ Debounce
    \/ WaitCancelled
    \/ WaitTimeout
    \/ WaitTick
    \/ CaptureAfter
    \/ Cancel
    \/ PaneLost

SpecPipe == InitPipe /\ [][NextPipe]_vars

\* Execute under a scheduler that lets it run: each call it makes returns,
\* the sleep ends, and the timer of waitForIdle fires when nothing else ends
\* the wait
SpecPipeFair ==
    /\ SpecPipe
    /\ WF_vars(ReturnNil)
    /\ WF_vars(FindPane)
    /\ WF_vars(CaptureBefore)
    /\ WF_vars(SendPrompt)
    /\ WF_vars(Debounce)
    /\ WF_vars(WaitCancelled)
    /\ WF_vars(WaitTimeout)
    /\ WF_vars(CaptureAfter)

--------------------------------------------------------------------------
\* Binding state machine: the first stage of a pipeline is bound in a session
\* of any panes, and its prompt is sent

\* agent types and model hints a stage may name
BindTypes == {"Claude", "cc", "CC", "claude-code", "cod", "openai", "gmi", "user"}
BindModels == {"", "opus", "sonnet"}

\* panes a session may hold (the ID is given by position)
PaneKinds ==
    {[Type |-> "cc",   Variant |-> "sonnet"],
     [Type |-> "cc",   Variant |-> "opus"],
     [Type |-> "cod",  Variant |-> ""],
     [Type |-> "user", Variant |-> ""]}

BindPaneLists ==
    UNION {{[k \in 1..n |-> [ID |-> PaneIDOf(k), Type |-> kinds[k].Type,
                             Variant |-> kinds[k].Variant]] :
               kinds \in [1..n -> PaneKinds]} : n \in 0..MaxPanes}

InitBind ==
    /\ DetectIdle
    /\ RedactIdle
    /\ SessionIdle
    /\ ExtractIdle
    /\ ScoreIdle
    /\ CoordIdle
    /\ PolicyIdle
    /\ WatchIdle
    /\ QuotaIdle
    /\ \E t \in BindTypes, m \in BindModels :
          stages = <<[AgentType |-> t, Prompt |-> <<"g", "o">>, Model |-> m]>>
    /\ panes \in BindPaneLists
    /\ stageIdx = 1
    /\ ppc = "find"
    /\ stagePaneID = ""
    /\ prompt = <<>>
    /\ previousOutput = <<>>
    /\ lastPaneID = ""
    /\ ctxDone = FALSE
    /\ result = {}
    /\ sent = <<>>
    /\ finished = <<>>
    /\ failed = {}
    /\ lostMid = FALSE
    /\ sentAtCancel = -1

NextBind == FindPane \/ CaptureBefore \/ SendPrompt

SpecBind == InitBind /\ [][NextBind]_vars

--------------------------------------------------------------------------
\* Coordinator tick: AssignWork on the idle agents of the registry and the
\* recommendations of the work graph

\* the agents and work items of TestScoreAndSelectAssignments
AssignAgentKinds == {kind \in AgentKinds : kind.ContextUsage <= 50 /\ kind.Profile = {}}
AssignRecKinds ==
    {kind \in RecKinds : kind.Score >= 600 /\ kind.Priority = 2 /\ ~kind.Dup}

\* an event emitted before the tick and not yet read
EarlierEvent == [Type |-> "agent_idle", AgentID |-> "%1", Details |-> <<>>]

InitAssign ==
    /\ DetectIdle
    /\ RedactIdle
    /\ SessionIdle
    /\ ExtractIdle
    /\ PipeIdle
    /\ PolicyIdle
    /\ WatchIdle
    /\ QuotaIdle
    /\ \E n \in 0..MaxAgents : \E kinds \in [1..n -> AssignAgentKinds] :
          registry = [i \in 1..n |-> [Status |-> "idle"] @@ MkAgent(kinds[i], i)]
    /\ idleAgents = <<>>
    /\ delivered = {}
    /\ reselected = {}
    /\ ticks = 0
    /\ \E n \in 0..MaxRecs : \E kinds \in [1..n -> AssignRecKinds] :
          recommendations = [i \in 1..n |-> MkRec(kinds[i], i)]
    /\ config = DefaultScoreConfig
    /\ existingReservations = <<>>
    /\ selected = <<>>
    /\ suggestion = {}
    /\ scored = {}
    /\ spc = "build"
    /\ autoAssign \in BOOLEAN
    /\ mailClient \in BOOLEAN
    /\ results = <<>>
    /\ events \in {<<>>, Rep(EarlierEvent, EventCapacity - 1)}

\* results, err := c.AssignWork(ctx); triageOk is FALSE when bv.GetTriage
\* returns an error
AssignWork ==
    /\ spc = "build"
    /\ LET idle == GetIdleAgents(registry)
       IN  \E triageOk \in BOOLEAN, sendOk \in [1..Len(idle) -> BOOLEAN] :
             IF ~autoAssign
             THEN /\ spc' = "assigned"
                  /\ results' = <<>>
                  /\ reselected' = {}
                  /\ UNCHANGED <<idleAgents, events, delivered>>
             ELSE IF Len(idle) = 0
             THEN /\ spc' = "assigned"
                  /\ idleAgents' = idle
                  /\ results' = <<>>
                  /\ reselected' = {}
                  /\ UNCHANGED <<events, delivered>>
             ELSE IF ~triageOk
             THEN /\ spc' = "triage-error"
                  /\ idleAgents' = idle
                  /\ results' = <<>>
                  /\ reselected' = {}
                  /\ UNCHANGED <<events, delivered>>
             ELSE LET r == assignLoop(idle, 1, recommendations, mailClient,
                                      sendOk, events)
                      chosen == {r.results[k].Assignment.AgentPaneID :
                                    k \in 1..Len(r.results)}
                      done == {r.results[k].Assignment.AgentPaneID :
                                    k \in {j \in 1..Len(r.results) :
                                              r.results[j].Success}}
                  IN  /\ spc' = "assigned"
                      /\ idleAgents' = idle
                      /\ results' = r.results
                      /\ events' = r.events
                      /\ reselected' = chosen \cap delivered
                      /\ delivered' = delivered \cup done
    /\ UNCHANGED <<recommendations, config, existingReservations,
                   selected, suggestion, scored, registry, ticks, autoAssign,
                   mailClient>>
    /\ UNCHANGED <<extractVars, pipeVars, policyVars, detectVars, redactVars, sessionVars,
                   watchVars, quotaVars>>

NextAssign == AssignWork

SpecAssign == InitAssign /\ [][NextAssign]_vars

\* the ticker of the control loop fires again: the next AssignWork call
Tick ==
    /\ spc \in {"assigned", "triage-error"}
    /\ ticks < MaxTicks
    /\ spc' = "build"
    /\ ticks' = ticks + 1
    /\ UNCHANGED <<idleAgents, recommendations, config, existingReservations,
                   selected, suggestion, scored>>
    /\ UNCHANGED <<registry, delivered, reselected, autoAssign, mailClient,
                   results, events>>
    /\ UNCHANGED <<extractVars, pipeVars, policyVars, detectVars, redactVars, sessionVars,
                   watchVars, quotaVars>>

\* the monitor stores the state the detector reports for the i-th agent; a
\* report of idle or awaiting-input after working is an idle transition
DetectorReport ==
    /\ spc = "build"
    /\ \E i \in 1..Len(registry), st \in {"idle", "awaiting-input", "working"} :
          /\ st # registry[i].Status
          /\ registry' = [registry EXCEPT ![i].Status = st]
          /\ delivered' = IF registry[i].Status = "working"
                          THEN delivered \ {registry[i].PaneID}
                          ELSE delivered
    /\ UNCHANGED <<idleAgents, recommendations, config, existingReservations,
                   selected, suggestion, scored, spc>>
    /\ UNCHANGED <<reselected, ticks, autoAssign, mailClient, results, events>>
    /\ UNCHANGED <<extractVars, pipeVars, policyVars, detectVars, redactVars, sessionVars,
                   watchVars, quotaVars>>

NextTicks == AssignWork \/ Tick \/ DetectorReport

SpecTicks == InitAssign /\ [][NextTicks]_vars

--------------------------------------------------------------------------
\* Policy guard: a command is matched against the allow, block and approval
\* rule lists of a policy

\* the commands of the policy tests that the model checks
Commands ==
    {"git push --force-with-lease", "git push --force", "rm -rf node_modules",
     "rm -rf /", "ls -la"}

\* rule patterns: pushes with --force-with-lease, pushes with a --force
\* option, recursive deletes, recursive deletes of the root
Patterns == {"force-with-lease", "force", "rm-rf", "rm-rf-root"}

\* the regular expression of the pattern matches the command
Matches(pattern, cmd) ==
    CASE pattern = "force-with-lease" -> cmd = "git push --force-with-lease"
      [] pattern = "force" -> cmd \in {"git push --force-with-lease", "git push --force"}
      [] pattern = "rm-rf" -> cmd \in {"rm -rf node_modules", "rm -rf /"}
      [] pattern = "rm-rf-root" -> cmd = "rm -rf /"
      [] OTHER -> FALSE

\* the first rule of the list that matches the command: {} when none does
FirstMatch(rules, cmd, action) ==
    LET hits == {k \in 1..Len(rules) : Matches(rules[k], cmd)}
    IN  IF hits = {} THEN {}
        ELSE {[Action |-> action, Pattern |-> rules[Min(hits)]]}

\* Check that consults the block rules first
Check_blockFirst(pol, cmd) ==
    LET allowed  == FirstMatch(pol.Allowed, cmd, "allow")
        blocked  == FirstMatch(pol.Blocked, cmd, "block")
        approval == FirstMatch(pol.ApprovalRequired, cmd, "approval")
    IN  IF blocked # {} THEN blocked
        ELSE IF allowed # {} THEN allowed
        ELSE approval

\* Policy.Check: the allow rules, then the block rules, then the approval
\* rules; {} (nil) when no rule matches
Check(pol, cmd) ==
    LET allowed  == FirstMatch(pol.Allowed, cmd, "allow")
        blocked  == FirstMatch(pol.Blocked, cmd, "block")
        approval == FirstMatch(pol.ApprovalRequired, cmd, "approval")
    IN  IF allowed # {} THEN allowed
        ELSE IF blocked # {} THEN blocked
        ELSE approval

IsBlocked(pol, cmd) == \E m \in Check(pol, cmd) : m.Action = "block"

NeedsApproval(pol, cmd) == \E m \in Check(pol, cmd) : m.Action = "approval"

RuleLists == UNION {[1..n -> Patterns] : n \in 0..MaxRules}

InitPolicy ==
    /\ DetectIdle
    /\ RedactIdle
    /\ SessionIdle
    /\ ExtractIdle
    /\ ScoreIdle
    /\ PipeIdle
    /\ CoordIdle
    /\ WatchIdle
    /\ QuotaIdle
    /\ \E allowed \in RuleLists, blocked \in RuleLists, approval \in RuleLists :
          policy = [Allowed |-> allowed, Blocked |-> blocked,
                    ApprovalRequired |-> approval]
    /\ command = ""
    /\ match = {}

\* match := p.Check(command)
CheckCommand ==
    /\ command = ""
    /\ \E cmd \in Commands :
          /\ command' = cmd
          /\ match' = Check(policy, cmd)
    /\ UNCHANGED policy
    /\ UNCHANGED <<extractVars, scoreVars, pipeVars, coordVars, detectVars,
                   redactVars, sessionVars,
                   watchVars, quotaVars>>

NextPolicy == CheckCommand

SpecPolicy == InitPolicy /\ [][NextPolicy]_vars

--------------------------------------------------------------------------
\* Agent state detection (internal/cli): determineAgentState on the captured
\* tail of a pane

\* the characters strings.TrimSpace strips
Whitespace == {" ", "\t", "\n", "\r"}

RECURSIVE TrimLeft(_)
TrimLeft(s) ==
    IF s # <<>> /\ Head(s) \in Whitespace THEN TrimLeft(Tail(s)) ELSE s

RECURSIVE TrimRight(_)
TrimRight(s) ==
    IF s # <<>> /\ s[Len(s)] \in Whitespace
    THEN TrimRight(SubSeq(s, 1, Len(s) - 1))
    ELSE s

\* strings.TrimSpace(s)
TrimSpace(s) == TrimRight(TrimLeft(s))

\* strings.Split(s, "\n"): the lines of s, at least one
RECURSIVE Split(_)
Split(s) ==
    LET i == Index(s, <<"\n">>)
    IN  IF i < 0 THEN <<s>>
        ELSE <<Slice(s, 0, i)>> \o Split(Slice(s, i + 1, Len(s)))

\* strings.Contains(s, substr)
Contains(s, substr) == Index(s, substr) >= 0

\* strings.HasSuffix(s, suffix)
HasSuffix(s, suffix) ==
    Len(s) >= Len(suffix) /\ Slice(s, Len(s) - Len(suffix), Len(s)) = suffix

\* idlePatterns of determineAgentState
idlePatterns ==
    <<<<"$">>,
      <<">">>,
      <<">", ">", ">", " ">>,
      <<"c", "l", "a", "u", "d", "e", ">">>,
      <<"c", "o", "d", "e", "x", ">">>,
      <<"g", "e", "m", "i", "n", "i", ">">>,
      <<"W", "h", "a", "t", " ", "w", "o", "u", "l", "d", " ", "y", "o",
        "u", " ", "l", "i", "k", "e">>,
      <<"H", "o", "w", " ", "c", "a", "n", " ", "I", " ", "h", "e", "l", "p">>,
      <<"R", "e", "a", "d", "y", " ", "f", "o", "r">>,
      <<"W", "a", "i", "t", "i", "n", "g", " ", "f", "o", "r">>>>

\* determineAgentState(scrollback, agentType); agentType is not used
determineAgentState(text) ==
    LET lines == Split(text)
    IN  IF Len(lines) = 0 THEN "unknown"
        ELSE LET lastLine == TrimSpace(lines[Len(lines)])
             IN  IF \E k \in 1..Len(idlePatterns) :
                        \/ HasSuffix(lastLine, idlePatterns[k])
                        \/ Contains(lastLine, idlePatterns[k])
                 THEN "idle"
                 ELSE "working"

\* the lines a captured tail is made of: prompts, text with a prompt
\* character inside, plain output, a waiting phrase, error banners
LineKinds ==
    {<<"u", "s", "e", "r", "@", "h", "o", "s", "t", ":", "~", "$", " ">>,
     <<"$">>,
     <<"u", "s", "e", "r", "@", "h", "o", "s", "t", " ", "%">>,
     <<">", " ">>,
     <<">", ">", ">", " ">>,
     <<"c", "l", "a", "u", "d", "e", ">">>,
     <<"c", "o", "s", "t", " ", "i", "s", " ", "$", "5", " ", "f", "o",
       "r", " ", "t", "h", "i", "s">>,
     <<"1", "0", "0", "%", " ", "c", "o", "m", "p", "l", "e", "t", "e">>,
     <<"a", " ", ">", " ", "b">>,
     <<"s", "t", "i", "l", "l", " ", "r", "u", "n", "n", "i", "n", "g",
       " ", "c", "o", "m", "m", "a", "n", "d">>,
     <<>>,
     <<"W", "h", "a", "t", " ", "w", "o", "u", "l", "d", " ", "y", "o",
       "u", " ", "l", "i", "k", "e">>,
     <<"r", "a", "t", "e", " ", "l", "i", "m", "i", "t", " ", "e", "x",
       "c", "e", "e", "d", "e", "d">>,
     <<"4", "0", "1", " ", "u", "n", "a", "u", "t", "h", "o", "r", "i",
       "z", "e", "d">>}

\* line endings of a capture
LineEndings == {<<"\n">>, <<"\r", "\n">>}

\* what may follow the last line: nothing, spaces, a final newline or CRLF,
\* blank lines
Paddings ==
    {<<>>, <<" ">>, <<"\n">>, <<"\r", "\n">>, <<"\n", "\n">>, <<" ", "\n">>}

\* strings.Join(lines, eol)
RECURSIVE Join(_, _)
Join(lines, eol) ==
    IF Len(lines) = 0 THEN <<>>
    ELSE IF Len(lines) = 1 THEN lines[1]
    ELSE lines[1] \o eol \o Join(Tail(lines), eol)

InitDetect ==
    /\ ExtractIdle
    /\ ScoreIdle
    /\ PipeIdle
    /\ CoordIdle
    /\ PolicyIdle
    /\ RedactIdle
    /\ SessionIdle
    /\ WatchIdle
    /\ QuotaIdle
    /\ \E n \in 1..MaxLines : \E lines \in [1..n -> LineKinds] :
          \E eol \in LineEndings, pad \in Paddings :
             scrollback = Join(lines, eol) \o pad
    /\ agentState = {}

\* state := determineAgentState(scrollback, agentType)
Detect ==
    /\ agentState = {}
    /\ agentState' = {determineAgentState(scrollback)}
    /\ UNCHANGED scrollback
    /\ UNCHANGED <<extractVars, scoreVars, pipeVars, coordVars, policyVars,
                   redactVars, sessionVars,
                   watchVars, quotaVars>>

NextDetect == Detect

SpecDetect == InitDetect /\ [][NextDetect]_vars

--------------------------------------------------------------------------
\* Redaction scan (internal/safety/redaction): the matches of all patterns
\* are collected, then overlapping ones are removed

\* the comparator of the sort: by start position, then by priority
\* descending
matchLess(a, b) ==
    IF a.start # b.start THEN a.start < b.start ELSE a.priority > b.priority

\* sort.Slice(matches, less) is not stable: every order of the matches in
\* which no match comes before one that is less than it
SortedOrders(ms) ==
    {[k \in 1..Len(ms) |-> ms[p[k]]] :
        p \in {q \in [1..Len(ms) -> 1..Len(ms)] :
                  /\ \A i, j \in 1..Len(ms) : i # j => q[i] # q[j]
                  /\ \A i, j \in 1..Len(ms) :
                        i < j => ~matchLess(ms[q[j]], ms[q[i]])}}

\* the loop of deduplicateMatches over the sorted matches from the k-th on:
\* a match is skipped when it starts before the end of the last kept one
RECURSIVE removeOverlaps(_, _, _)
removeOverlaps(sorted, k, lastEnd) ==
    IF k > Len(sorted) THEN <<>>
    ELSE IF sorted[k].start < lastEnd
    THEN removeOverlaps(sorted, k + 1, lastEnd)
    ELSE <<sorted[k]>> \o removeOverlaps(sorted, k + 1, sorted[k].end)

\* deduplicateMatches(matches): the results the sort's choice of order allows
deduplicateMatches(ms) ==
    IF Len(ms) = 0 THEN {ms}
    ELSE {removeOverlaps(sorted, 1, -1) : sorted \in SortedOrders(ms)}

\* the categories of the overlap test, and a second key category of the same
\* priority as the first
PatternKinds ==
    {[category |-> "OPENAI_KEY", priority |-> 2],
     [category |-> "ANTHROPIC_KEY", priority |-> 2],
     [category |-> "GENERIC_SECRET", priority |-> 1]}

\* the matches a scan of an input of MaxPos bytes can find
MatchKinds ==
    {[category |-> kind.category, priority |-> kind.priority,
      start |-> span[1], end |-> span[2]] :
        kind \in PatternKinds,
        span \in {sp \in (0..(MaxPos - 1)) \X (1..MaxPos) : sp[1] < sp[2]}}

\* the scanned input, each byte named by its position in the input
InputBytes == [i \in 1..MaxPos |-> [kind |-> "byte", at |-> i - 1]]

\* generatePlaceholder(cat, content): "[REDACTED:" cat ":" hash of both "]"
generatePlaceholder(cat, content) ==
    [kind |-> "placeholder", category |-> cat, content |-> content]

\* the findings ScanAndRedact builds from the matches scan returned
Findings(input, ms) ==
    [k \in 1..Len(ms) |->
        [Category |-> ms[k].category,
         Match |-> Slice(input, ms[k].start, ms[k].end),
         Redacted |-> generatePlaceholder(ms[k].category,
                          Slice(input, ms[k].start, ms[k].end)),
         Start |-> ms[k].start,
         End |-> ms[k].end]]

\* sort.Slice(sorted, Start descending): every order it may leave
DescendingOrders(fs) ==
    {[k \in 1..Len(fs) |-> fs[p[k]]] :
        p \in {q \in [1..Len(fs) -> 1..Len(fs)] :
                  /\ \A i, j \in 1..Len(fs) : i # j => q[i] # q[j]
                  /\ \A i, j \in 1..Len(fs) :
                        i < j => ~(fs[q[j]].Start > fs[q[i]].Start)}}

\* the loop of applyRedactions from the k-th sorted finding on
RECURSIVE replaceFrom(_, _, _)
replaceFrom(res, sorted, k) ==
    IF k > Len(sorted) THEN res
    ELSE LET f == sorted[k]
         IN IF f.Start >= 0 /\ f.End <= Len(res) /\ f.Start < f.End
            THEN replaceFrom(Slice(res, 0, f.Start) \o <<f.Redacted>>
                                \o Slice(res, f.End, Len(res)),
                             sorted, k + 1)
            ELSE replaceFrom(res, sorted, k + 1)

\* applyRedactions(input, findings): the results the sort's order allows
applyRedactions(input, findings) ==
    IF Len(findings) = 0 THEN {input}
    ELSE {replaceFrom(input, sorted, 1) : sorted \in DescendingOrders(findings)}

InitRedact ==
    /\ ExtractIdle
    /\ ScoreIdle
    /\ PipeIdle
    /\ CoordIdle
    /\ PolicyIdle
    /\ DetectIdle
    /\ SessionIdle
    /\ WatchIdle
    /\ QuotaIdle
    /\ \E n \in 0..MaxMatches : allMatches \in [1..n -> MatchKinds]
    /\ deduped = {}
    /\ redacted = {}

\* return deduplicateMatches(allMatches), the last step of scan
Deduplicate ==
    /\ deduped = {}
    /\ \E kept \in deduplicateMatches(allMatches) : deduped' = {kept}
    /\ UNCHANGED <<allMatches, redacted>>
    /\ UNCHANGED <<extractVars, scoreVars, pipeVars, coordVars, policyVars,
                   detectVars, sessionVars,
                   watchVars, quotaVars>>

\* ScanAndRedact in ModeRedact after scan returned: the input itself when
\* there is no match, else applyRedactions over the findings
Redact ==
    /\ deduped # {}
    /\ redacted = {}
    /\ \E kept \in deduped :
          IF Len(kept) = 0
          THEN redacted' = {InputBytes}
          ELSE \E out \in applyRedactions(InputBytes, Findings(InputBytes, kept)) :
                  redacted' = {out}
    /\ UNCHANGED <<allMatches, deduped>>
    /\ UNCHANGED <<extractVars, scoreVars, pipeVars, coordVars, policyVars,
                   detectVars, sessionVars,
                   watchVars, quotaVars>>

NextRedact == Deduplicate \/ Redact

SpecRedact == InitRedact /\ [][NextRedact]_vars

--------------------------------------------------------------------------
\* Session agent record (internal/agentmail/session.go): agent.json of a
\* session is saved, loaded, and written by the registration

\* the content of agent.json: the marshalled info, of which the first
\* `blocks` of MaxBlocks blocks are in the file
FileOf(info, blocks) == [exists |-> TRUE, info |-> info, blocks |-> blocks]

\* os.ReadFile and json.Unmarshal in LoadSessionAgent: (nil, nil) for an
\* absent file, an error for a failed read or for content that is not a
\* complete JSON record, else the info
LoadSessionAgent(file, readOk) ==
    IF ~file.exists THEN [info |-> {}, err |-> ""]
    ELSE IF ~readOk THEN [info |-> {}, err |-> "reading session agent"]
    ELSE IF file.blocks < MaxBlocks THEN [info |-> {}, err |-> "parsing session agent"]
    ELSE [info |-> {file.info}, err |-> ""]

\* SaveSessionAgent when nothing interrupts it: how = "ok", or the step that
\* fails; a failed write leaves the first `blocks` blocks in the truncated
\* file
SaveSessionAgent(file, info, how, blocks) ==
    CASE how = "mkdir" -> [file |-> file, err |-> "creating session directory"]
      [] how = "open"  -> [file |-> file, err |-> "writing session agent"]
      [] how = "write" -> [file |-> FileOf(info, blocks), err |-> "writing session agent"]
      [] OTHER         -> [file |-> FileOf(info, MaxBlocks), err |-> ""]

\* the session names of the model and sanitizeSessionName on them
SessionNames == {"dev", "My Proj"}

sanitizeSessionName(name) ==
    CASE name = "My Proj" -> "my_proj"
      [] OTHER            -> name

\* the error texts a RegisterAgent call fails with; "" is no error
ErrorTexts ==
    {"", "Agent name already in use", "name taken", "connection refused"}

\* IsNameTakenError never reports a taken name
IsNameTakenError_never(err) == FALSE

\* IsNameTakenError(err), on the error texts of the model
IsNameTakenError(err) ==
    err \in {"Agent name already in use", "name taken", "already registered"}

\* the project the session is registered for
WorkingDir == "/work/p1"

\* one RegisterAgent call: the name asked for, the error, and the name of
\* the agent the server returned (serverName = "" when it is the name asked
\* for)
RegisterAgent(name, outcome) ==
    [Name |-> name, err |-> outcome.err,
     agent |-> IF outcome.err # "" THEN {}
               ELSE IF outcome.serverName = "" THEN {name}
               ELSE {<<outcome.serverName>>}]

RegisterOutcomes == [err : ErrorTexts, serverName : {"", "GreenCastle"}]

\* the environment of one RegisterSessionAgent call: c.IsAvailable, the
\* outcome of reading agent.json, of EnsureProject, of the first and the
\* second RegisterAgent call, time.Now().Unix()%10000, and how
\* SaveSessionAgent ends
RegisterEnvs ==
    [available : BOOLEAN, readOk : BOOLEAN, ensureOk : BOOLEAN,
     first : RegisterOutcomes, second : RegisterOutcomes,
     suffix : {0, 9999}, save : {"ok", "mkdir", "open", "write"},
     blocks : 0..(MaxBlocks - 1)]

\* RegisterSessionAgent(ctx, sessionName, workingDir): the value returned,
\* the RegisterAgent calls made, what LoadSessionAgent returned, and
\* agent.json afterwards
RegisterSessionAgent(file, sessionName, env) ==
    LET existing == LoadSessionAgent(file, env.readOk)
        none == [ret |-> [info |-> {}, err |-> ""], calls |-> <<>>,
                 loaded |-> {}, file |-> file]
    IN  IF ~env.available THEN none
        ELSE IF existing.err # ""
        THEN [none EXCEPT !.ret = [info |-> {}, err |-> existing.err],
                          !.loaded = {existing}]
        ELSE IF \E e \in existing.info : e.ProjectKey = WorkingDir
        THEN LET e == CHOOSE e \in existing.info : TRUE
                 touched == [e EXCEPT !.LastActiveAt = 1]
                 saved == SaveSessionAgent(file, touched, env.save, env.blocks)
             IN  IF saved.err # ""
                 THEN [ret |-> [info |-> {}, err |-> saved.err], calls |-> <<>>,
                       loaded |-> {existing}, file |-> saved.file]
                 ELSE [ret |-> [info |-> {touched}, err |-> ""],
                       calls |-> <<RegisterAgent(e.AgentName, env.first)>>,
                       loaded |-> {existing}, file |-> saved.file]
        ELSE IF ~env.ensureOk
        THEN [none EXCEPT !.ret = [info |-> {}, err |-> "ensuring project"],
                          !.loaded = {existing}]
        ELSE LET agentName == <<"ntm", sanitizeSessionName(sessionName)>>
                 call1 == RegisterAgent(agentName, env.first)
                 retry == call1.err # "" /\ IsNameTakenError(call1.err)
                 call2 == RegisterAgent(Append(agentName, env.suffix), env.second)
                 calls == IF retry THEN <<call1, call2>> ELSE <<call1>>
                 last  == calls[Len(calls)]
             IN  IF last.err # ""
                 THEN [ret |-> [info |-> {}, err |-> "registering agent"],
                       calls |-> calls, loaded |-> {existing}, file |-> file]
                 ELSE LET info == [AgentName |-> CHOOSE n \in last.agent : TRUE,
                                   ProjectKey |-> WorkingDir,
                                   RegisteredAt |-> 1, LastActiveAt |-> 1]
                          saved == SaveSessionAgent(file, info, env.save, env.blocks)
                      IN  [ret |-> [info |-> IF saved.err = "" THEN {info} ELSE {},
                                    err |-> saved.err],
                           calls |-> calls, loaded |-> {existing},
                           file |-> saved.file]

\* the records a session may hold from earlier: registered under the name
\* asked for or under a name of the server, for this project or another
EarlierInfos ==
    [AgentName : {<<"ntm", "dev">>, <<"GreenCastle">>},
     ProjectKey : {WorkingDir, "/work/p2"},
     RegisteredAt : {0}, LastActiveAt : {0}]

\* the infos SaveSessionAgent is called with: an earlier record with a new
\* activity time
SaveInfos == {[e EXCEPT !.LastActiveAt = 1] : e \in EarlierInfos}

InitSave ==
    /\ ExtractIdle
    /\ ScoreIdle
    /\ PipeIdle
    /\ CoordIdle
    /\ PolicyIdle
    /\ DetectIdle
    /\ RedactIdle
    /\ WatchIdle
    /\ QuotaIdle
    /\ agentFile \in {NoFile} \cup {FileOf(e, MaxBlocks) : e \in EarlierInfos}
    /\ savePc = "idle"
    /\ saveInfo = {}
    /\ loaded = {}
    /\ registerCalls = <<>>
    /\ registered = {}

\* SaveSessionAgent(sessionName, info) up to os.WriteFile: MkdirAll and
\* MarshalIndent
SaveBegin ==
    /\ savePc \in {"idle", "done", "failed"}
    /\ \E info \in SaveInfos, mkdirOk \in BOOLEAN :
          /\ saveInfo' = {info}
          /\ savePc' = IF mkdirOk THEN "open" ELSE "failed"
    /\ UNCHANGED <<agentFile, loaded, registerCalls, registered>>
    /\ UNCHANGED <<extractVars, scoreVars, pipeVars, coordVars, policyVars,
                   detectVars, redactVars,
                   watchVars, quotaVars>>

\* os.WriteFile opens agent.json with O_WRONLY|O_CREATE|O_TRUNC: the file is
\* empty from here on until the data is written
SaveTruncate ==
    /\ savePc = "open"
    /\ \E openOk \in BOOLEAN :
          IF openOk
          THEN /\ agentFile' = FileOf(CHOOSE i \in saveInfo : TRUE, 0)
               /\ savePc' = "write"
          ELSE /\ savePc' = "failed"
               /\ UNCHANGED agentFile
    /\ UNCHANGED <<saveInfo, loaded, registerCalls, registered>>
    /\ UNCHANGED <<extractVars, scoreVars, pipeVars, coordVars, policyVars,
                   detectVars, redactVars,
                   watchVars, quotaVars>>

\* os.WriteFile writes the data, a block at a time; a write may fail
SaveWrite ==
    /\ savePc = "write"
    /\ \E writeOk \in BOOLEAN :
          IF writeOk
          THEN /\ agentFile' = [agentFile EXCEPT !.blocks = @ + 1]
               /\ savePc' = IF agentFile.blocks + 1 = MaxBlocks THEN "done" ELSE "write"
          ELSE /\ savePc' = "failed"
               /\ UNCHANGED agentFile
    /\ UNCHANGED <<saveInfo, loaded, registerCalls, registered>>
    /\ UNCHANGED <<extractVars, scoreVars, pipeVars, coordVars, policyVars,
                   detectVars, redactVars,
                   watchVars, quotaVars>>

\* the process dies inside SaveSessionAgent
Crash ==
    /\ savePc \in {"open", "write"}
    /\ savePc' = "crashed"
    /\ UNCHANGED <<agentFile, saveInfo, loaded, registerCalls, registered>>
    /\ UNCHANGED <<extractVars, scoreVars, pipeVars, coordVars, policyVars,
                   detectVars, redactVars,
                   watchVars, quotaVars>>

\* another process calls LoadSessionAgent(sessionName)
Load ==
    /\ \E readOk \in BOOLEAN :
          loaded' = loaded \cup {LoadSessionAgent(agentFile, readOk)}
    /\ UNCHANGED <<agentFile, savePc, saveInfo, registerCalls, registered>>
    /\ UNCHANGED <<extractVars, scoreVars, pipeVars, coordVars, policyVars,
                   detectVars, redactVars,
                   watchVars, quotaVars>>

NextSave == SaveBegin \/ SaveTruncate \/ SaveWrite \/ Crash \/ Load

SpecSave == InitSave /\ [][NextSave]_vars

\* Registration: one RegisterSessionAgent call on a session that has no
\* record, a record of this or another project, or an unreadable one
InitRegister ==
    /\ ExtractIdle
    /\ ScoreIdle
    /\ PipeIdle
    /\ CoordIdle
    /\ PolicyIdle
    /\ DetectIdle
    /\ RedactIdle
    /\ WatchIdle
    /\ QuotaIdle
    /\ agentFile \in {NoFile} \cup {FileOf(e, MaxBlocks) : e \in EarlierInfos}
                       \cup {FileOf(e, 0) : e \in EarlierInfos}
    /\ savePc = "idle"
    /\ saveInfo = {}
    /\ loaded = {}
    /\ registerCalls = <<>>
    /\ registered = {}

\* info, err := c.RegisterSessionAgent(ctx, sessionName, workingDir)
Register ==
    /\ registered = {}
    /\ \E sessionName \in SessionNames, env \in RegisterEnvs :
          LET r == RegisterSessionAgent(agentFile, sessionName, env)
          IN  /\ registered' = {r.ret}
              /\ registerCalls' = r.calls
              /\ loaded' = r.loaded
              /\ agentFile' = r.file
    /\ UNCHANGED <<savePc, saveInfo>>
    /\ UNCHANGED <<extractVars, scoreVars, pipeVars, coordVars, policyVars,
                   detectVars, redactVars,
                   watchVars, quotaVars>>

NextRegister == Register

SpecRegister == InitRegister /\ [][NextRegister]_vars

--------------------------------------------------------------------------
\* File watcher (internal/watcher): handleEvent runs on the goroutine of
\* run, the debounce callback on the goroutine of the debouncer's timer;
\* Add, Remove and Close are called by the owner of the watcher

\* the operations of fsnotify an event can carry
OpKinds == {"Create", "Write", "Remove", "Rename", "Chmod"}

\* All = Create | Write | Remove | Rename | Chmod
All == OpKinds

\* eventTypeFromFsnotify(op): the same operations as an EventType
eventTypeFromFsnotify(op) == op \cap OpKinds

\* the file tree: a directory, its subdirectory and a file (absolute paths)
Paths == {"/d", "/d/s", "/f"}

\* the paths of the tree that are directories
Dirs == {"/d", "/d/s"}

\* the directories whose entries the walk cannot read: none, or the one
\* that has entries
UnreadableDirs == {{}, {"/d"}}

\* the paths fsWatcher.Add fails for: none or one
FailingPaths == {{}} \cup {{p} : p \in Paths}

\* the paths fsnotify reports events for
EventPaths == {"/d/s", "/f"}

\* the operations of those events
EventOps == {{"Create"}, {"Remove"}, {"Chmod"}}

\* the directories filepath.WalkDir meets from root on, root included
SubTree(root) ==
    IF root = "/d" THEN {"/d", "/d/s"}
    ELSE IF root = "/d/s" THEN {"/d/s"}
    ELSE {}

\* the directories of the walk strictly above dir
Above(root, dir) == {a \in SubTree(root) : a # dir /\ dir \in SubTree(a)}

\* addRecursive(root): every directory of the walk that is not below an
\* unreadable one (SkipDir) is added unless fsWatcher.Add fails for it; the
\* walk itself returns nil
addRecursive(watched, root, unreadable, failing) ==
    watched \cup {dir \in SubTree(root) :
                    /\ Above(root, dir) \cap unreadable = {}
                    /\ dir \notin failing}

\* Watcher.Add(path): the watched set afterwards and the error returned
WatcherAdd(watched, isClosed, isRecursive, path, statOk, unreadable, failing) ==
    IF isClosed THEN [watched |-> watched, err |-> "watcher is closed"]
    ELSE IF path \in watched THEN [watched |-> watched, err |-> ""]
    ELSE IF ~statOk THEN [watched |-> watched, err |-> "stat"]
    ELSE IF path \in Dirs /\ isRecursive
    THEN [watched |-> addRecursive(watched, path, unreadable, failing),
          err |-> ""]
    ELSE IF path \in failing THEN [watched |-> watched, err |-> "add"]
    ELSE [watched |-> watched \cup {path}, err |-> ""]

\* Watcher.Remove(path): the watched set afterwards and the error returned
WatcherRemove(watched, isClosed, path, removeOk) ==
    IF isClosed THEN [watched |-> watched, err |-> "watcher is closed"]
    ELSE IF path \notin watched THEN [watched |-> watched, err |-> ""]
    ELSE IF ~removeOk THEN [watched |-> watched, err |-> "remove"]
    ELSE [watched |-> watched \ {path}, err |-> ""]

\* a callback that calls the handler whatever it took
nonEmptyBatch_always(toDeliver) == TRUE

\* len(toDeliver) > 0 && w.handler != nil, with a handler set
nonEmptyBatch(toDeliver) == Len(toDeliver) > 0

\* sequence seq without its i-th element
RemoveAt(seq, i) == SubSeq(seq, 1, i - 1) \o SubSeq(seq, i + 1, Len(seq))

\* Debouncer.Trigger(fn): the timer is (re)started with fn as its callback
DebouncerTrigger == timerArmed' = TRUE

\* Debouncer.Cancel(): a timer that has not fired is stopped
DebouncerCancel == timerArmed' = FALSE

InitWatch ==
    /\ ExtractIdle
    /\ ScoreIdle
    /\ PipeIdle
    /\ CoordIdle
    /\ PolicyIdle
    /\ DetectIdle
    /\ RedactIdle
    /\ SessionIdle
    /\ QuotaIdle
    /\ recursive \in BOOLEAN
    /\ eventFilter \in {All, {"Create", "Remove"}}
    /\ watchedPaths = {}
    /\ pendingEvents = <<>>
    /\ closed = FALSE
    /\ hpc = "idle"
    /\ curEvent = {}
    /\ timerArmed = FALSE
    /\ running = <<>>
    /\ handled = <<>>
    /\ arrived = <<>>
    /\ addedFrom = {}
    /\ roundTrip = {}

\* Add(path) by the owner
AddPath ==
    /\ \E path \in Paths, statOk \in BOOLEAN,
          unreadable \in UnreadableDirs, failing \in FailingPaths :
          LET r == WatcherAdd(watchedPaths, closed, recursive, path, statOk,
                              unreadable, failing)
          IN /\ watchedPaths' = r.watched
             /\ addedFrom' =
                   IF r.err = "" /\ path \notin watchedPaths
                   THEN {[path |-> path, before |-> watchedPaths]}
                   ELSE {}
    /\ roundTrip' = {}
    /\ UNCHANGED <<recursive, eventFilter, pendingEvents, closed, hpc,
                   curEvent, timerArmed, running, handled, arrived>>
    /\ UNCHANGED <<extractVars, scoreVars, pipeVars, coordVars, policyVars,
                   detectVars, redactVars, sessionVars, quotaVars>>

\* Remove(path) by the owner
RemovePath ==
    /\ \E path \in Paths, removeOk \in BOOLEAN :
          LET r == WatcherRemove(watchedPaths, closed, path, removeOk)
          IN /\ watchedPaths' = r.watched
             /\ roundTrip' =
                   IF r.err = "" /\ \E a \in addedFrom : a.path = path
                   THEN {[path |-> path, before |-> a.before,
                          after |-> r.watched] : a \in addedFrom}
                   ELSE {}
    /\ addedFrom' = {}
    /\ UNCHANGED <<recursive, eventFilter, pendingEvents, closed, hpc,
                   curEvent, timerArmed, running, handled, arrived>>
    /\ UNCHANGED <<extractVars, scoreVars, pipeVars, coordVars, policyVars,
                   detectVars, redactVars, sessionVars, quotaVars>>

\* Close() by the owner
Close ==
    /\ ~closed
    /\ closed' = TRUE
    /\ DebouncerCancel
    /\ UNCHANGED <<recursive, eventFilter, watchedPaths, pendingEvents, hpc,
                   curEvent, running, handled, arrived, addedFrom, roundTrip>>
    /\ UNCHANGED <<extractVars, scoreVars, pipeVars, coordVars, policyVars,
                   detectVars, redactVars, sessionVars, quotaVars>>

\* handleEvent up to the append: the filter, the stat, the watch of a new
\* directory and the clean-up of a removed path
HandleBegin ==
    /\ hpc = "idle"
    /\ ~closed
    /\ Len(arrived) < MaxEvents
    /\ \E name \in EventPaths, op \in EventOps, addOk \in BOOLEAN :
          LET eventType == eventTypeFromFsnotify(op)
              \* os.Stat of a removed path fails
              isDir == name \in Dirs /\ "Remove" \notin op
              event == [Path |-> name, Type |-> eventType, IsDir |-> isDir,
                        seq |-> Len(arrived) + 1]
              created ==
                  IF /\ recursive /\ isDir /\ "Create" \in eventType
                     /\ ~closed /\ name \notin watchedPaths /\ addOk
                  THEN watchedPaths \cup {name}
                  ELSE watchedPaths
              cleaned ==
                  IF "Remove" \in eventType \/ "Rename" \in eventType
                  THEN created \ {name}
                  ELSE created
          IN IF eventType \cap eventFilter = {}
             THEN UNCHANGED <<watchedPaths, hpc, curEvent, arrived>>
             ELSE /\ watchedPaths' = cleaned
                  /\ hpc' = "append"
                  /\ curEvent' = {event}
                  /\ arrived' = Append(arrived, event)
    /\ addedFrom' = {}
    /\ roundTrip' = {}
    /\ UNCHANGED <<recursive, eventFilter, pendingEvents, closed, timerArmed,
                   running, handled>>
    /\ UNCHANGED <<extractVars, scoreVars, pipeVars, coordVars, policyVars,
                   detectVars, redactVars, sessionVars, quotaVars>>

\* w.pendingEvents = append(w.pendingEvents, event), under the mutex
HandleAppend ==
    /\ hpc = "append"
    /\ \E event \in curEvent : pendingEvents' = Append(pendingEvents, event)
    /\ hpc' = "trigger"
    /\ UNCHANGED <<recursive, eventFilter, watchedPaths, closed, curEvent,
                   timerArmed, running, handled, arrived, addedFrom, roundTrip>>
    /\ UNCHANGED <<extractVars, scoreVars, pipeVars, coordVars, policyVars,
                   detectVars, redactVars, sessionVars, quotaVars>>

\* w.debouncer.Trigger(func() {...}), the last statement of handleEvent
HandleTrigger ==
    /\ hpc = "trigger"
    /\ DebouncerTrigger
    /\ hpc' = "idle"
    /\ curEvent' = {}
    /\ UNCHANGED <<recursive, eventFilter, watchedPaths, pendingEvents, closed,
                   running, handled, arrived, addedFrom, roundTrip>>
    /\ UNCHANGED <<extractVars, scoreVars, pipeVars, coordVars, policyVars,
                   detectVars, redactVars, sessionVars, quotaVars>>

\* the timer of the debouncer fires: its callback starts on a goroutine of
\* its own
Fire ==
    /\ timerArmed
    /\ timerArmed' = FALSE
    /\ running' = Append(running, [pc |-> "take", toDeliver |-> <<>>])
    /\ UNCHANGED <<recursive, eventFilter, watchedPaths, pendingEvents, closed,
                   hpc, curEvent, handled, arrived, addedFrom, roundTrip>>
    /\ UNCHANGED <<extractVars, scoreVars, pipeVars, coordVars, policyVars,
                   detectVars, redactVars, sessionVars, quotaVars>>

\* the callback takes the pending events under the mutex; with nothing to
\* deliver it returns
Take ==
    /\ \E i \in 1..Len(running) :
          /\ running[i].pc = "take"
          /\ running' =
                IF nonEmptyBatch(pendingEvents)
                THEN [running EXCEPT ![i] = [pc |-> "deliver",
                                             toDeliver |-> pendingEvents]]
                ELSE RemoveAt(running, i)
    /\ pendingEvents' = <<>>
    /\ UNCHANGED <<recursive, eventFilter, watchedPaths, closed, hpc,
                   curEvent, timerArmed, handled, arrived, addedFrom, roundTrip>>
    /\ UNCHANGED <<extractVars, scoreVars, pipeVars, coordVars, policyVars,
                   detectVars, redactVars, sessionVars, quotaVars>>

\* w.handler(toDeliver), outside the mutex
Deliver ==
    /\ \E i \in 1..Len(running) :
          /\ running[i].pc = "deliver"
          /\ handled' = Append(handled, running[i].toDeliver)
          /\ running' = RemoveAt(running, i)
    /\ UNCHANGED <<recursive, eventFilter, watchedPaths, pendingEvents, closed,
                   hpc, curEvent, timerArmed, arrived, addedFrom, roundTrip>>
    /\ UNCHANGED <<extractVars, scoreVars, pipeVars, coordVars, policyVars,
                   detectVars, redactVars, sessionVars, quotaVars>>

NextWatch ==
    \/ Close
    \/ HandleBegin
    \/ HandleAppend
    \/ HandleTrigger
    \/ Fire
    \/ Take
    \/ Deliver

SpecWatch == InitWatch /\ [][NextWatch]_vars

\* the watcher with its owner adding and removing paths
NextPaths ==
    \/ AddPath
    \/ RemovePath
    \/ NextWatch

SpecPaths == InitWatch /\ [][NextPaths]_vars

--------------------------------------------------------------------------
\* Quota fetcher (internal/quota): FetchQuota sends the provider's quota
\* commands to the pane and reads what the pane prints

\* the providers of providerCommands
Providers == {"claude", "codex", "gemini"}

\* providerCommands: the usage and the status command of each provider
providerCommands ==
    [p \in Providers |->
        CASE p = "claude" -> [UsageCmd |-> "/usage", StatusCmd |-> "/status"]
          [] p = "codex"  -> [UsageCmd |-> "/usage", StatusCmd |-> "/status"]
          [] p = "gemini" -> [UsageCmd |-> "/auth status",
                              StatusCmd |-> "/auth status"]]

\* strings.TrimPrefix(s, prefix)
TrimPrefix(s, prefix) ==
    IF Len(s) >= Len(prefix) /\ SubSeq(s, 1, Len(prefix)) = prefix
    THEN SubSeq(s, Len(prefix) + 1, Len(s))
    ELSE s

\* one poll of waitForNewOutput that captured output: {} to poll again,
\* else {the text returned}
newOutput(initialOutput, captured) ==
    IF /\ captured # initialOutput
       /\ Len(captured) > Len(initialOutput)
       /\ TrimPrefix(captured, initialOutput) # <<>>
    THEN {TrimSpace(TrimPrefix(captured, initialOutput))}
    ELSE {}

\* the guard of fetchStatus: the status command is compared with the usage
\* command of ProviderClaude
skipStatus(fetched, statusCmd) ==
    statusCmd = providerCommands["claude"].UsageCmd

\* what tmux.CapturePaneOutput can return for the pane
PaneTexts ==
    {<<>>, <<"$">>, <<"$", " ">>, <<"$", "7", "%">>, <<"$", " ", "o", "k">>,
     <<"7", "%">>}

\* how one wait can go: a capture that is compared, the deadline, or the
\* end of the caller's context
WaitOutcomes ==
    {[kind |-> "poll", captured |-> t] : t \in PaneTexts}
        \cup {[kind |-> "timeout", captured |-> <<>>],
              [kind |-> "cancelled", captured |-> <<>>]}

InitQuota ==
    /\ ExtractIdle
    /\ ScoreIdle
    /\ PipeIdle
    /\ CoordIdle
    /\ PolicyIdle
    /\ DetectIdle
    /\ RedactIdle
    /\ SessionIdle
    /\ WatchIdle
    /\ provider \in Providers \cup {"other"}
    /\ qpc = "start"
    /\ qInitial = <<>>
    /\ paneSent = <<>>
    /\ quotaInfo = {}

\* the lookup of the provider and the capture of the initial state
QuotaBegin ==
    /\ qpc = "start"
    /\ IF provider \notin Providers
       THEN /\ qpc' = "failed"
            /\ UNCHANGED <<qInitial, quotaInfo>>
       ELSE \E captureOk \in BOOLEAN, text \in PaneTexts :
               IF captureOk
               THEN /\ qpc' = "sendUsage"
                    /\ qInitial' = text
                    /\ quotaInfo' = {[Provider |-> provider, Error |-> "",
                                      RawOutput |-> <<>>]}
               ELSE /\ qpc' = "done"
                    /\ qInitial' = <<>>
                    /\ quotaInfo' =
                          {[Provider |-> provider,
                            Error |-> "failed to capture initial output",
                            RawOutput |-> <<>>]}
    /\ UNCHANGED <<provider, paneSent>>
    /\ UNCHANGED <<extractVars, scoreVars, pipeVars, coordVars, policyVars,
                   detectVars, redactVars, sessionVars, watchVars>>

\* tmux.SendKeys(paneID, cmds.UsageCmd, true)
SendUsage ==
    /\ qpc = "sendUsage"
    /\ \E sendOk \in BOOLEAN :
          IF sendOk
          THEN /\ paneSent' =
                     Append(paneSent, providerCommands[provider].UsageCmd)
               /\ qpc' = "waitUsage"
               /\ UNCHANGED quotaInfo
          ELSE /\ qpc' = "done"
               /\ quotaInfo' =
                     {[i EXCEPT !.Error = "failed to send usage command"] :
                         i \in quotaInfo}
               /\ UNCHANGED paneSent
    /\ UNCHANGED <<provider, qInitial>>
    /\ UNCHANGED <<extractVars, scoreVars, pipeVars, coordVars, policyVars,
                   detectVars, redactVars, sessionVars, watchVars>>

\* waitForNewOutput for the usage command, then parseUsageOutput
WaitUsage ==
    /\ qpc = "waitUsage"
    /\ \E outcome \in WaitOutcomes, captureOk \in BOOLEAN, parseOk \in BOOLEAN :
          IF outcome.kind # "poll"
          THEN /\ qpc' = "done"
               /\ quotaInfo' =
                     {[i EXCEPT !.Error = "failed to capture usage output"] :
                         i \in quotaInfo}
          ELSE IF ~captureOk \/ newOutput(qInitial, outcome.captured) = {}
          THEN UNCHANGED <<qpc, quotaInfo>>
          ELSE /\ qpc' = "status"
               /\ quotaInfo' =
                     {[i EXCEPT
                         !.Error = IF parseOk THEN ""
                                   ELSE "failed to parse usage",
                         !.RawOutput = usageOutput] :
                         i \in quotaInfo,
                         usageOutput \in newOutput(qInitial, outcome.captured)}
    /\ UNCHANGED <<provider, qInitial, paneSent>>
    /\ UNCHANGED <<extractVars, scoreVars, pipeVars, coordVars, policyVars,
                   detectVars, redactVars, sessionVars, watchVars>>

\* fetchStatus up to its SendKeys: the guard, the capture and the send
FetchStatus ==
    /\ qpc = "status"
    /\ IF skipStatus(provider, providerCommands[provider].StatusCmd)
       THEN /\ qpc' = "done"
            /\ UNCHANGED <<qInitial, paneSent>>
       ELSE \E captureOk \in BOOLEAN, sendOk \in BOOLEAN, text \in PaneTexts :
               IF captureOk /\ sendOk
               THEN /\ qInitial' = text
                    /\ paneSent' =
                          Append(paneSent, providerCommands[provider].StatusCmd)
                    /\ qpc' = "waitStatus"
               ELSE /\ qpc' = "done"
                    /\ UNCHANGED <<qInitial, paneSent>>
    /\ UNCHANGED <<provider, quotaInfo>>
    /\ UNCHANGED <<extractVars, scoreVars, pipeVars, coordVars, policyVars,
                   detectVars, redactVars, sessionVars, watchVars>>

\* waitForNewOutput for the status command; a non-empty status output is
\* appended to info.RawOutput
WaitStatus ==
    /\ qpc = "waitStatus"
    /\ \E outcome \in WaitOutcomes, captureOk \in BOOLEAN :
          IF outcome.kind # "poll"
          THEN /\ qpc' = "done"
               /\ UNCHANGED quotaInfo
          ELSE IF ~captureOk \/ newOutput(qInitial, outcome.captured) = {}
          THEN UNCHANGED <<qpc, quotaInfo>>
          ELSE /\ qpc' = "done"
               /\ quotaInfo' =
                     {IF statusOutput # <<>>
                      THEN [i EXCEPT !.RawOutput =
                               i.RawOutput \o <<"\n", "-", "-", "-", "\n">>
                                   \o statusOutput]
                      ELSE i :
                         i \in quotaInfo,
                         statusOutput \in newOutput(qInitial, outcome.captured)}
    /\ UNCHANGED <<provider, qInitial, paneSent>>
    /\ UNCHANGED <<extractVars, scoreVars, pipeVars, coordVars, policyVars,
                   detectVars, redactVars, sessionVars, watchVars>>

NextQuota ==
    \/ QuotaBegin
    \/ SendUsage
    \/ WaitUsage
    \/ FetchStatus
    \/ WaitStatus

SpecQuota == InitQuota /\ [][NextQuota]_vars

--------------------------------------------------------------------------
\* Properties of the assignment scorer

Range(f) == {f[k] : k \in DOMAIN f}

Candidates ==
    scoreLoop(1, 1, idleAgents, recommendations, config, existingReservations)

\* C5: the result of ScoreAndSelectAssignments holds each agent pane id at most
\* once and each work-item id at most once.
C5_AtMostOncePerAgentAndWorkItem ==
    spc = "selected"
    => \A k1, k2 \in 1..Len(selected) :
          k1 # k2 => /\ selected[k1].AgentPaneID # selected[k2].AgentPaneID
                     /\ selected[k1].BeadID # selected[k2].BeadID

\* two agents were served although two open items share one id
C5_Witness ==
    /\ spc = "selected"
    /\ Len(selected) = 2
    /\ \E i, j \in 1..Len(recommendations) :
          /\ i # j
          /\ recommendations[i].ID = recommendations[j].ID
          /\ recommendations[i].Status # "blocked"
          /\ recommendations[j].Status # "blocked"

\* C6: a blocked recommendation is never in the result of
\* ScoreAndSelectAssignments and is never returned by findBestMatch.
C6_BlockedNeverSelected ==
    /\ spc = "selected"
       => \A k \in 1..Len(selected) :
             recommendations[selected[k].Recommendation].Status # "blocked"
    /\ spc = "suggested"
       => \A s \in suggestion :
             recommendations[s.Recommendation].Status # "blocked"

\* the blocked item leads the list and outscores everything selected
C6_Witness ==
    /\ spc = "selected"
    /\ Len(recommendations) >= 2
    /\ recommendations[1].Status = "blocked"
    /\ Len(selected) >= 1
    /\ \A k \in 1..Len(selected) :
          selected[k].TotalScore < recommendations[1].Score

\* insertion of x into a descending list behind every element that is not
\* smaller: a stable descending sort
RECURSIVE InsertStable(_, _)
InsertStable(sorted, x) ==
    IF sorted = <<>> THEN <<x>>
    ELSE IF Head(sorted).TotalScore >= x.TotalScore
         THEN <<Head(sorted)>> \o InsertStable(Tail(sorted), x)
         ELSE <<x>> \o sorted

RECURSIVE StableSortDesc(_)
StableSortDesc(c) ==
    IF c = <<>> THEN <<>>
    ELSE InsertStable(StableSortDesc(SubSeq(c, 1, Len(c) - 1)), c[Len(c)])

\* C7: ties are broken by enumeration order: the selection is the greedy
\* acceptance over a stable descending sort of the enumerated candidates.
C7_TiesFollowEnumerationOrder ==
    spc = "selected"
    => selected = selectLoop(StableSortDesc(Candidates), 1, {}, {})

\* C8: the selection is maximal: no non-blocked pair with a positive total
\* score has both its agent and its work item outside the selection.
C8_SelectionIsMaximal ==
    spc = "selected"
    => ~ \E i \in 1..Len(idleAgents), j \in 1..Len(recommendations) :
            /\ recommendations[j].Status # "blocked"
            /\ scoreAssignment(i, j, idleAgents, recommendations, config,
                               existingReservations).TotalScore > 0
            /\ \A k \in 1..Len(selected) :
                  /\ selected[k].AgentPaneID # idleAgents[i].PaneID
                  /\ selected[k].BeadID # recommendations[j].ID

\* a candidate was skipped for a conflict and a later, lower one was accepted
C8_Witness ==
    /\ spc = "selected"
    /\ LET c == sortScoredAssignments(Candidates)
       IN  \E k1, k2 \in 1..Len(c) :
              /\ k1 < k2
              /\ c[k1] \notin Range(selected)
              /\ c[k2] \in Range(selected)

ScenarioAgents ==
    <<[PaneID |-> "%1", AgentType |-> "cc", AgentMailName |-> "BlueFox",
       ContextUsage |-> 30, Reservations |-> <<>>, Profile |-> {}],
      [PaneID |-> "%2", AgentType |-> "cod", AgentMailName |-> "",
       ContextUsage |-> 50, Reservations |-> <<>>, Profile |-> {}]>>

ScenarioRecs ==
    <<[ID |-> "W1", Title |-> "Epic task", Type |-> "epic", Priority |-> 2,
       Status |-> "open", Score |-> 800, UnblocksIDs |-> <<>>, Breakdown |-> {}],
      [ID |-> "W2", Title |-> "Quick fix", Type |-> "chore", Priority |-> 2,
       Status |-> "open", Score |-> 600, UnblocksIDs |-> <<>>, Breakdown |-> {}],
      [ID |-> "W3", Title |-> "Blocked", Type |-> "task", Priority |-> 2,
       Status |-> "blocked", Score |-> 900, UnblocksIDs |-> <<>>, Breakdown |-> {}]>>

InScenario ==
    /\ spc = "selected"
    /\ idleAgents = ScenarioAgents
    /\ recommendations = ScenarioRecs
    /\ config = DefaultScoreConfig
    /\ existingReservations = <<>>

\* C9: scenario 5 of the specification yields exactly W1 for agent A (%1) and
\* W2 for agent B (%2); W3 is not selected.
C9_ScenarioSelectsW1ForAAndW2ForB ==
    InScenario
    => /\ Len(selected) = 2
       /\ {<<s.AgentPaneID, s.BeadID>> : s \in Range(selected)}
             = {<<"%1", "W1">>, <<"%2", "W2">>}

C9_Witness ==
    /\ InScenario
    /\ Len(selected) = 2
    /\ selected[1].AgentPaneID = "%1"
    /\ selected[1].BeadID = "W1"
    /\ selected[1].TotalScore = 950
    /\ selected[2].AgentPaneID = "%2"
    /\ selected[2].BeadID = "W2"
    /\ selected[2].TotalScore = 750

\* C10 as stated: with budget awareness on, the context penalty in the score
\* is zero iff usage <= the configured threshold, and (usage - threshold)/100
\* * 0.5 > 0 above it, for every configured threshold in 0..100.
C10_PenaltyZeroIffWithinConfiguredThreshold ==
    (spc = "scored" /\ config.BudgetAware)
    => \A s \in scored :
          LET usage     == idleAgents[1].ContextUsage
              threshold == config.ContextThreshold
              penalty   == s.ScoreBreakdown.ContextPenalty
          IN  /\ (penalty = 0) <=> (usage <= threshold)
              /\ usage > threshold
                 => penalty > 0 /\ penalty = (usage - threshold) * 5

\* C10 amended: the same for every configured threshold in 1..100; a
\* configured threshold of 0 is read as the default 80.
C10_PenaltyZeroIffWithinEffectiveThreshold ==
    (spc = "scored" /\ config.BudgetAware)
    => \A s \in scored :
          LET usage     == idleAgents[1].ContextUsage
              threshold == IF config.ContextThreshold = 0
                           THEN 80 ELSE config.ContextThreshold
              penalty   == s.ScoreBreakdown.ContextPenalty
          IN  /\ (penalty = 0) <=> (usage <= threshold)
              /\ usage > threshold
                 => penalty > 0 /\ penalty = (usage - threshold) * 5

C10_Witness ==
    /\ spc = "scored"
    /\ config.BudgetAware
    /\ config.ContextThreshold = 60
    /\ idleAgents[1].ContextUsage = 90
    /\ \E s \in scored : s.ScoreBreakdown.ContextPenalty = 150

\* the tier of a reservation count, in thousandths
OverlapTier(count) ==
    IF count = 0 THEN 0
    ELSE IF count <= 2 THEN 50
    ELSE IF count <= 5 THEN 100
    ELSE 200

\* C11: the file-overlap penalty is the tier of the reservation count, the
\* count taken from the existing-reservations map whenever a map is provided
\* (also when it holds nothing for the agent) and from the agent's own
\* Reservations only when no map is provided.
C11_PenaltyCountsMapWheneverProvided ==
    (spc = "scored" /\ config.PenalizeFileOverlap)
    => \A s \in scored :
          LET agent == idleAgents[1]
              count == IF DOMAIN existingReservations # {}
                       THEN Len(MapGet(existingReservations, agent.PaneID))
                       ELSE Len(agent.Reservations)
          IN  s.ScoreBreakdown.FileOverlapPenalty = OverlapTier(count)

--------------------------------------------------------------------------
\* Properties of the output extractor

Max(S) == CHOOSE x \in S : \A y \in S : x >= y

IsPrefix(p, s) == Len(p) <= Len(s) /\ Slice(s, 0, Len(p)) = p
IsSuffix(p, s) == Len(p) <= Len(s) /\ Slice(s, Len(s) - Len(p), Len(s)) = p

\* lengths k such that the last k bytes of b are the first k bytes of a
Overlaps(b, a) ==
    {k \in 0..(IF Len(b) < Len(a) THEN Len(b) ELSE Len(a)) :
        Slice(b, Len(b) - k, Len(b)) = Slice(a, 0, k)}

LongestOverlap(b, a) == Max(Overlaps(b, a))

\* C1: for non-empty snapshots where before is not a prefix of after, the
\* extraction returns after[len(S):], S the longest suffix of before that is a
\* prefix of after.
C1_ScrollReturnsAfterLongestOverlap ==
    (/\ xpc = "extracted"
     /\ beforeOutput # <<>>
     /\ afterOutput # <<>>
     /\ ~IsPrefix(beforeOutput, afterOutput))
    => /\ ~fault
       /\ output = Slice(afterOutput, LongestOverlap(beforeOutput, afterOutput),
                         Len(afterOutput))

\* C2: the extraction is total (no runtime fault for any pair of snapshots) and
\* returns after entire when no non-empty suffix of before is a prefix of after.
C2_TotalAndNoOverlapReturnsAfter ==
    xpc = "extracted"
    => /\ ~fault
       /\ (LongestOverlap(beforeOutput, afterOutput) = 0 => output = afterOutput)

\* C3: extractNewOutput(before, before ++ X) = X for every before and X.
C3_AppendReturnsSuffix ==
    (xpc = "extracted" /\ IsPrefix(beforeOutput, afterOutput))
    => /\ ~fault
       /\ output = Slice(afterOutput, Len(beforeOutput), Len(afterOutput))

C3_Witness ==
    /\ xpc = "extracted"
    /\ Len(beforeOutput) > chunkSize
    /\ Len(afterOutput) > Len(beforeOutput)
    /\ IsPrefix(beforeOutput, afterOutput)
    /\ output = Slice(afterOutput, Len(beforeOutput), Len(afterOutput))

\* C4: whenever the extraction returns r, after ends with r and the part of
\* after in front of r is a (possibly empty) suffix of before.
C4_ResultIsTailAfterOverlap ==
    (xpc = "extracted" /\ ~fault)
    => /\ IsSuffix(output, afterOutput)
       /\ IsSuffix(Slice(afterOutput, 0, Len(afterOutput) - Len(output)),
                   beforeOutput)

\* a scrolled pane: a proper overlap longer than the chunk, found by the loop
C4_Witness ==
    /\ xpc = "extracted"
    /\ ~fault
    /\ ~IsPrefix(beforeOutput, afterOutput)
    /\ Len(output) > 0
    /\ Len(afterOutput) - Len(output) > chunkSize
    /\ IsSuffix(Slice(afterOutput, 0, Len(afterOutput) - Len(output)), beforeOutput)

--------------------------------------------------------------------------
\* Properties of the pipeline runner

BindFailed == [stage |-> 1, step |-> "bind"] \in failed

\* C12: stages run strictly in list order without overlap: the prompt of stage
\* i+1 is sent only after stage i's pane was observed idle, its after-snapshot
\* was captured and its output extracted, and the output carried into stage
\* i+1 is the extraction of stage i.
C12_StagesRunInOrder ==
    /\ \A k \in 1..Len(sent) : sent[k].stage = k
    /\ \A k \in 1..Len(finished) : finished[k].stage = k
    /\ \A k \in 2..Len(sent) :
          /\ Len(finished) >= k - 1
          /\ finished[k - 1].state = "idle"
          /\ finished[k - 1].captured
          /\ finished[k - 1].output =
                extractNewOutput(finished[k - 1].before, finished[k - 1].after).out
          /\ sent[k].carried = finished[k - 1].output

\* the second stage was sent with the non-empty extraction of the first
C12_Witness ==
    /\ Len(sent) = 2
    /\ sent[2].ok
    /\ finished[1].before = <<"a">>
    /\ finished[1].after = <<"a", "b">>
    /\ sent[2].carried = <<"b">>

\* C13: the first stage's prompt is sent unmodified; a stage with a non-empty
\* previous output is sent the base prompt followed by "(See previous output
\* above)" when it is bound to the pane of the stage before, and the base
\* prompt followed by "Result from previous stage:" and the previous output
\* verbatim otherwise.
C13_PromptCarriesPreviousOutput ==
    \A k \in 1..Len(sent) :
        LET base == stages[k].Prompt
        IN  IF k = 1 THEN sent[k].keys = base
            ELSE finished[k - 1].output # <<>>
                 => IF sent[k].pane = finished[k - 1].pane
                    THEN sent[k].keys = base \o SeePrevious
                    ELSE sent[k].keys = base \o ResultHeading \o finished[k - 1].output

\* the second stage runs in the pane of the first and refers to its output
C13_Witness ==
    /\ Len(sent) = 2
    /\ sent[2].pane = sent[1].pane
    /\ finished[1].output = <<"b">>
    /\ sent[2].keys = <<"g", "o">> \o SeePrevious

\* C14: the pane bound to a stage has the stage's agent type; with a model
\* hint and a pane of the type that has exactly that variant, the bound pane
\* has the variant; with no such pane a pane of the type is still bound; with
\* no pane of the type the stage fails with the no-agent error and nothing is
\* sent.  (A failure of tmux.GetPanes yields no pane list; it fails the stage
\* with the error of tmux.)
C14_BindsTypePreferringVariant ==
    ppc # "find"
    => LET stage  == stages[1]
           target == normalizeAgentType(stage.AgentType)
           typed  == {k \in 1..Len(panes) : panes[k].Type = target}
           exact  == {k \in typed : panes[k].Variant = stage.Model}
       IN  IF BindFailed
           THEN /\ result # {}
                /\ sent = <<>>
                /\ \A r \in result :
                      /\ r.kind = "error"
                      /\ \/ r.cause = "tmux"
                         \/ r.cause = "no agent found" /\ typed = {}
           ELSE \E k \in typed :
                   /\ panes[k].ID = stagePaneID
                   /\ (stage.Model # "" /\ exact # {}) => k \in exact

\* the first pane of the type has another variant: the second one is bound
C14_Witness ==
    /\ ppc = "sleep"
    /\ stages[1].Model = "opus"
    /\ Len(panes) >= 2
    /\ panes[1].Type = "cc"
    /\ panes[1].Variant = "sonnet"
    /\ panes[2].Variant = "opus"
    /\ stagePaneID = "%2"
    /\ Len(sent) = 1

\* C15: when a step of stage i fails (bind, inject, await-idle, after-capture)
\* Execute returns an error that names stage i, no prompt of a later stage is
\* sent, and nothing but the stages' prompts was sent to any pane.
C15_FailedStageAborts ==
    \A f \in failed :
        /\ ppc = "returned"
        /\ result # {}
        /\ \A r \in result : r.kind = "error" /\ r.stage = f.stage
        /\ Len(sent) <= f.stage
        /\ \A k \in 1..Len(sent) :
              /\ sent[k].stage = k
              /\ IsPrefix(stages[k].Prompt, sent[k].keys)

\* the first of two stages timed out; the second was never sent
C15_Witness ==
    /\ Len(stages) = 2
    /\ failed = {[stage |-> 1, step |-> "await-idle"]}
    /\ ppc = "returned"
    /\ Len(sent) = 1

\* C16: when the bound pane disappears inside a stage, the run fails with a
\* cause that is neither the timeout nor the cancellation.
C16_LostPaneFailsAsPaneLost ==
    (ppc = "returned" /\ lostMid)
    => /\ result # {}
       /\ \A r \in result :
             /\ r.kind = "error"
             /\ r.cause \notin {"timeout waiting for agent", "context canceled"}

\* C17: once ctx is cancelled no further prompt is sent, whichever step the
\* run is at, and Execute returns the cancellation.
C17_CancelStopsTheRun ==
    ctxDone
    => /\ Len(sent) = sentAtCancel
       /\ ppc = "returned"
          => \A r \in result : r.kind = "error" /\ r.cause = "context canceled"

\* C18: in every run, also one that fails, times out or is cancelled, each
\* stage's prompt is sent at most once.
C18_PromptSentAtMostOnce ==
    \A k1, k2 \in 1..Len(sent) :
        sent[k1].stage = sent[k2].stage => k1 = k2

\* the second stage timed out after its prompt was sent
C18_Witness ==
    /\ ppc = "returned"
    /\ Len(sent) = 2
    /\ [stage |-> 2, step |-> "await-idle"] \in failed
    /\ \E r \in result : r.cause = "timeout waiting for agent"

--------------------------------------------------------------------------
\* Properties of the policy guard

AnyMatch(rules, cmd) == \E k \in 1..Len(rules) : Matches(rules[k], cmd)

\* C19: Check returns allow if any allow rule matches the command, otherwise
\* block if any block rule matches, otherwise approval if any approval rule
\* matches, otherwise no match; so IsBlocked and NeedsApproval are false for
\* every command that an allow rule matches.
C19_AllowBeatsBlockBeatsApproval ==
    command # ""
    => LET expected ==
               IF AnyMatch(policy.Allowed, command) THEN "allow"
               ELSE IF AnyMatch(policy.Blocked, command) THEN "block"
               ELSE IF AnyMatch(policy.ApprovalRequired, command) THEN "approval"
               ELSE "none"
       IN  /\ IF expected = "none" THEN match = {}
              ELSE match # {} /\ \A m \in match : m.Action = expected
           /\ AnyMatch(policy.Allowed, command)
              => ~IsBlocked(policy, command) /\ ~NeedsApproval(policy, command)

\* a force-with-lease push that the force-push block rule matches as well
C19_Witness ==
    /\ command = "git push --force-with-lease"
    /\ AnyMatch(policy.Blocked, command)
    /\ AnyMatch(policy.Allowed, command)
    /\ \E m \in match : m.Action = "allow" /\ m.Pattern = "force-with-lease"

--------------------------------------------------------------------------
\* Properties of the coordinator tick

\* the agent-to-work pairs of a list of assignments
Pairs(assignments) == {<<a.AgentPaneID, a.BeadID>> : a \in Range(assignments)}

\* C20: with auto-assignment enabled the assignments AssignWork executes are
\* those ScoreAndSelectAssignments selects for the same idle agents and
\* recommendations: the same agent-to-work pairs.
C20_AssignWorkExecutesScorerSelection ==
    (/\ spc = "assigned"
     /\ autoAssign
     /\ \A k \in 1..Len(results) : results[k].Success)
    => Pairs([k \in 1..Len(results) |-> results[k].Assignment])
          = Pairs(ScoreAndSelectAssignments(idleAgents, recommendations, config,
                                            existingReservations))

\* C21: an agent that was delivered an assignment in one tick is not selected
\* by a following AssignWork tick before the detector has reported a new
\* idle transition for it.
C21_DeliveredAgentNotReselected == reselected = {}

\* the successful results of the tick, in order
Succeeded == SelectSeq(results, LAMBDA r : r.Success)

\* the work items of the triage that are not blocked
Assignable == {i \in 1..Len(recommendations) : recommendations[i].Status # "blocked"}

\* C22: emitting events never blocks the tick: whether or not the event
\* channel is full, AssignWork returns one result per idle agent, in agent
\* order, until no assignable work is left, and every assignment it made
\* is in the results.
C22_EmissionNeverBlocksTheTick ==
    (spc = "assigned" /\ autoAssign /\ Len(recommendations) > 0)
    => /\ \A k \in 1..Len(results) :
             results[k].Assignment.AgentPaneID = idleAgents[k].PaneID
       /\ \/ Len(results) = Len(idleAgents)
          \/ Len(Succeeded) = Cardinality(Assignable)
       /\ Len(events) <= EventCapacity

\* a tick on a full channel: two agents were assigned work, only the first
\* event went into the channel
C22_Witness ==
    /\ spc = "assigned"
    /\ Len(events) = EventCapacity
    /\ events[EventCapacity - 1] = EarlierEvent
    /\ Len(results) = 2
    /\ Len(Succeeded) = 2

\* C23: when an event is emitted on a full channel the oldest unread event
\* is dropped and the new one enqueued, so after a tick the channel ends
\* with the events of the tick's successful assignments, the newest last.
C23_FullChannelKeepsNewestEvents ==
    (spc = "assigned" /\ Len(Succeeded) > 0)
    => /\ Len(events) >= Len(Succeeded)
       /\ \A k \in 1..Len(Succeeded) :
             LET ev == events[Len(events) - Len(Succeeded) + k]
             IN  /\ ev.Type = "work_assigned"
                 /\ ev.AgentID = Succeeded[k].Assignment.AgentPaneID
                 /\ ev.Details.bead_id = Succeeded[k].Assignment.BeadID

\* C24: every assignment of a tick that failed on a transient I/O error is
\* emitted as a delivery-failed event for its agent, and a work-assigned
\* event is emitted only for an assignment that succeeded.
C24_FailuresEmitDeliveryFailed ==
    (spc = "assigned" /\ Len(events) < EventCapacity)
    => /\ \A k \in 1..Len(results) :
             ~results[k].Success
             => \E e \in 1..Len(events) :
                   /\ events[e].Type = "delivery_failed"
                   /\ events[e].AgentID = results[k].Assignment.AgentPaneID
       /\ \A e \in 1..Len(events) :
             events[e].Type = "work_assigned"
             => \E k \in 1..Len(results) :
                   /\ results[k].Success
                   /\ results[k].Assignment.AgentPaneID = events[e].AgentID

--------------------------------------------------------------------------
\* Properties of the agent state detection

\* the last line of the tail that is not blank, <<>> when all are blank
LastNonBlank(text) ==
    LET lines == Split(text)
        full  == {k \in 1..Len(lines) : TrimSpace(lines[k]) # <<>>}
    IN  IF full = {} THEN <<>> ELSE TrimSpace(lines[Max(full)])

\* the characters an interactive prompt ends with
PromptChars == {"$", "%", ">"}

\* the line ends with a prompt suffix
EndsWithPrompt(line) == line # <<>> /\ line[Len(line)] \in PromptChars

\* a prompt character occurs in the line
HasPromptChar(line) == \E k \in 1..Len(line) : line[k] \in PromptChars

\* the phrases of an agent that waits for input
WaitingPhrases ==
    {<<"W", "h", "a", "t", " ", "w", "o", "u", "l", "d", " ", "y", "o",
       "u", " ", "l", "i", "k", "e">>,
     <<"H", "o", "w", " ", "c", "a", "n", " ", "I", " ", "h", "e", "l", "p">>,
     <<"R", "e", "a", "d", "y", " ", "f", "o", "r">>,
     <<"W", "a", "i", "t", "i", "n", "g", " ", "f", "o", "r">>}

\* the banners of an agent that stopped on an error
ErrorBanners ==
    {<<"r", "a", "t", "e", " ", "l", "i", "m", "i", "t">>,
     <<"q", "u", "o", "t", "a", " ", "e", "x", "c", "e", "e", "d", "e", "d">>,
     <<"u", "n", "a", "u", "t", "h", "o", "r", "i", "z", "e", "d">>}

HasWaitingPhrase(text) == \E p \in WaitingPhrases : Contains(text, p)
HasErrorBanner(text) == \E b \in ErrorBanners : Contains(text, b)

\* C25: idle-prompt detection is anchored at the end of the tail: when the
\* last line of the tail ends with a prompt suffix the state is idle, and
\* when a prompt character occurs only inside the text of the last line the
\* state is working.
C25_IdlePromptAnchoredAtEnd ==
    LET lines == Split(scrollback)
        last  == TrimSpace(lines[Len(lines)])
    IN  (agentState # {} /\ last # <<>>)
        => /\ EndsWithPrompt(last) => agentState = {"idle"}
           /\ (HasPromptChar(last) /\ ~EndsWithPrompt(last)
                  /\ ~HasWaitingPhrase(last))
              => agentState = {"working"}

\* the state the rules give, applied top-down
RuleState(text) ==
    IF EndsWithPrompt(LastNonBlank(text)) THEN "idle"
    ELSE IF HasWaitingPhrase(text) THEN "awaiting-input"
    ELSE IF HasErrorBanner(text) THEN "error"
    ELSE "working"

\* C26: the detection applies its rules top-down, first match wins: an
\* anchored idle prompt gives idle, otherwise a waiting phrase in the tail
\* gives awaiting-input, otherwise an error banner gives error, otherwise
\* working; a tail holding only an error banner is never working or idle.
C26_RulesTopDownFirstMatch ==
    agentState # {} => agentState = {RuleState(scrollback)}

\* C27: the detected state depends only on the last non-blank line:
\* appending blank lines, trailing spaces or a final newline or CRLF never
\* changes it.
C27_StateIgnoresTrailingBlanks ==
    agentState # {}
    => /\ agentState = {determineAgentState(LastNonBlank(scrollback))}
       /\ \A pad \in Paddings :
             determineAgentState(scrollback \o pad) = determineAgentState(scrollback)

--------------------------------------------------------------------------
\* Properties of the redaction scan

\* two matches share a byte of the input
MatchesOverlap(a, b) == a.start < b.end /\ b.start < a.end

\* a is preferred to b: higher priority, or equal priority and not a later
\* start
Preferred(a, b) ==
    \/ a.priority > b.priority
    \/ a.priority = b.priority /\ a.start <= b.start

\* C28: of two overlapping matches the scan keeps the one of higher
\* priority, and between matches of equal priority the one that starts
\* earlier, also when the match of lower priority starts first: the kept
\* matches do not overlap, and every dropped match overlaps a kept match
\* that is preferred to it.
C28_OverlapKeepsHigherPriority ==
    \A kept \in deduped :
       /\ Range(kept) \subseteq Range(allMatches)
       /\ \A i, j \in 1..Len(kept) : i # j => ~MatchesOverlap(kept[i], kept[j])
       /\ \A d \in Range(allMatches) \ Range(kept) :
             \E k \in Range(kept) : MatchesOverlap(k, d) /\ Preferred(k, d)

--------------------------------------------------------------------------
\* Properties of the session agent record

\* C29: agent.json is written atomically: whenever LoadSessionAgent runs
\* while SaveSessionAgent is in progress or after it crashed, it finds no
\* file, the complete previous record or the complete new one, never an
\* empty or partly written file.
C29_RecordWrittenAtomically ==
    /\ (savePc = "crashed" /\ agentFile.exists) => agentFile.blocks = MaxBlocks
    /\ \A r \in loaded : r.err # "parsing session agent"

\* the error of a RegisterAgent call is a name conflict
NameConflict(err) == err \in {"Agent name already in use", "name taken"}

\* name is base with a numeric suffix
Suffixed(name, base) ==
    /\ Len(name) = Len(base) + 1
    /\ SubSeq(name, 1, Len(base)) = base
    /\ name[Len(name)] \in Nat

\* agent.json as RegisterSessionAgent found it
FileBefore ==
    LET l == CHOOSE l \in loaded : TRUE
    IN  IF l.info = {} THEN NoFile ELSE FileOf(CHOOSE e \in l.info : TRUE, MaxBlocks)

\* the retry rule on the RegisterAgent calls of one RegisterSessionAgent
\* call: a conflict on the first call is retried once under a suffixed name,
\* a failure returns an error and leaves agent.json alone, a success saves
\* the name the server returned
RetryRule ==
    LET ret  == CHOOSE r \in registered : TRUE
        last == registerCalls[Len(registerCalls)]
    IN  /\ IF NameConflict(registerCalls[1].err)
           THEN /\ Len(registerCalls) = 2
                /\ Suffixed(registerCalls[2].Name, registerCalls[1].Name)
           ELSE Len(registerCalls) = 1
        /\ last.err # ""
           => /\ ret.err # ""
              /\ ret.info = {}
              /\ agentFile = FileBefore
        /\ ret.err = ""
           => /\ agentFile.exists
              /\ agentFile.blocks = MaxBlocks
              /\ agentFile.info.AgentName \in last.agent
              /\ ret.info = {agentFile.info}

\* the session had a saved record for the project of the call
Refresh ==
    \E l \in loaded : \E e \in l.info : e.ProjectKey = WorkingDir

--------------------------------------------------------------------------
\* Properties of the scorer's order

\* the scores of the list never increase
NonIncreasing(list) ==
    \A k \in 1..(Len(list) - 1) : list[k].TotalScore >= list[k + 1].TotalScore

\* number of positions of the list that hold x
Count(list, x) == Cardinality({k \in 1..Len(list) : list[k] = x})

\* C31: the list ScoreAndSelectAssignments returns is in non-increasing order
\* of total score and every assignment in it has a total score above 0; the
\* hand-written sort puts every candidate list in non-increasing order, ties
\* included, keeping each candidate.
C31_SelectedByDescendingPositiveScore ==
    spc = "selected"
    => /\ \A cands \in {Candidates} :
             \A sorted \in {sortScoredAssignments(cands)} :
                /\ NonIncreasing(sorted)
                /\ Len(sorted) = Len(cands)
                /\ \A x \in Range(cands) : Count(sorted, x) = Count(cands, x)
       /\ NonIncreasing(selected)
       /\ \A k \in 1..Len(selected) : selected[k].TotalScore > 0

\* the candidates were scored out of order, two of them tie, and the sort
\* had to move one that is neither first nor highest
C31_Witness ==
    /\ spc = "selected"
    /\ Len(selected) = 2
    /\ Len(Candidates) >= 4
    /\ \E i, j \in 1..Len(Candidates) :
          i # j /\ Candidates[i].TotalScore = Candidates[j].TotalScore
    /\ \E k \in 2..(Len(Candidates) - 1) :
          Candidates[k].TotalScore < Candidates[k + 1].TotalScore
    /\ selected[1].TotalScore > selected[2].TotalScore

\* C32: a failed attempt does not abort the tick: the error of AssignWork
\* comes from the triage only, before any attempt; after a failed attempt
\* the next idle agent is attempted too, and it is offered the work item of
\* the failed attempt, which stayed in the list.
C32_FailedAttemptDoesNotAbortTick ==
    /\ spc = "triage-error" => results = <<>>
    /\ (spc = "assigned" /\ autoAssign)
       => \A k \in 1..Len(results) :
             (~results[k].Success /\ k < Len(idleAgents))
             => /\ Len(results) > k
                /\ results[k + 1].Assignment.AgentPaneID = idleAgents[k + 1].PaneID
                /\ results[k + 1].Assignment.BeadID = results[k].Assignment.BeadID

\* the mail to the first agent failed, the second agent received the same
\* work item
C32_Witness ==
    /\ spc = "assigned"
    /\ Len(results) = 2
    /\ ~results[1].Success
    /\ results[1].Error = "sending message"
    /\ results[2].Success
    /\ results[2].Assignment.BeadID = results[1].Assignment.BeadID
    /\ results[2].Assignment.AgentPaneID # results[1].Assignment.AgentPaneID

\* the ids of the work items assigned with success before the k-th result
AssignedBefore(k) ==
    {results[j].Assignment.BeadID : j \in {i \in 1..(k - 1) : results[i].Success}}

\* C35: within one AssignWork call each idle agent is attempted at most
\* once and each work item is assigned with success to at most one agent:
\* every attempt pairs its agent with the first non-blocked recommendation
\* that no earlier attempt of the call was assigned with success.
C35_OneAttemptPerAgentOneAgentPerItem ==
    (spc = "assigned" /\ autoAssign)
    => /\ \A k1, k2 \in 1..Len(results) :
             k1 # k2
             => /\ results[k1].Assignment.AgentPaneID # results[k2].Assignment.AgentPaneID
                /\ (results[k1].Success /\ results[k2].Success)
                   => results[k1].Assignment.BeadID # results[k2].Assignment.BeadID
       /\ \A k \in 1..Len(results) :
             LET left == SelectSeq(recommendations,
                                   LAMBDA r : /\ r.Status # "blocked"
                                              /\ r.ID \notin AssignedBefore(k))
             IN  /\ Len(left) > 0
                 /\ results[k].Assignment.BeadID = left[1].ID

\* behind a blocked item two agents were assigned the second and the third
\* item
C35_Witness ==
    /\ spc = "assigned"
    /\ Len(recommendations) = 3
    /\ recommendations[1].Status = "blocked"
    /\ Len(results) = 2
    /\ results[1].Success /\ results[1].Assignment.BeadID = "W2"
    /\ results[2].Success /\ results[2].Assignment.BeadID = "W3"

--------------------------------------------------------------------------
\* Properties of the order of the runner's steps

\* the steps Execute may take from one position to the next: within a stage
\* bind, before-snapshot, inject, debounce, poll, after-snapshot; then the
\* next stage; from each failing step the return
StepOrder ==
    {<<"find", "before">>, <<"before", "send">>, <<"send", "sleep">>,
     <<"sleep", "wait">>, <<"wait", "after">>, <<"after", "find">>,
     <<"after", "panicked">>,
     <<"find", "returned">>, <<"send", "returned">>, <<"wait", "returned">>,
     <<"after", "returned">>}

\* the PasteKeys calls and the idle observations of the stage
SentFor(i) == {k \in 1..Len(sent) : sent[k].stage = i}
IdleSeenFor(i) == {k \in 1..Len(finished) : finished[k].stage = i}

\* where the running stage stands, told by what has happened for it
StageProgress ==
    Running
    => /\ ppc \in {"find", "before", "send"} => SentFor(stageIdx) = {}
       /\ ppc \in {"sleep", "wait", "after"}
          => /\ Cardinality(SentFor(stageIdx)) = 1
             /\ \A k \in SentFor(stageIdx) : sent[k].ok
       /\ ppc \in {"find", "before", "send", "sleep", "wait"}
          => IdleSeenFor(stageIdx) = {}
       /\ ppc = "after"
          => /\ IdleSeenFor(stageIdx) = {Len(finished)}
             /\ ~finished[Len(finished)].captured
             /\ finished[Len(finished)].before = beforeOutput

\* C33: within every stage the runner binds the pane, captures the
\* before-snapshot, injects the prompt, debounces, polls the detector and
\* captures the after-snapshot, in this order: nothing is injected for a
\* stage before its before-snapshot is taken, and no idle state is observed
\* for it before its debounce is over.
C33_StageStepsInOrder ==
    /\ []StageProgress
    /\ [][ppc' # ppc => <<ppc, ppc'>> \in StepOrder]_vars

\* the first stage went through all its steps and the second one has been
\* polled idle
C33_Witness ==
    /\ ppc = "after"
    /\ stageIdx = 2
    /\ Len(finished) = 2
    /\ finished[1].captured
    /\ Len(sent) = 2

\* C34: every pipeline run terminates: each await-idle ends by an idle
\* observation, by the timeout or by cancellation, and Execute eventually
\* returns ok or an error.
C34_ExecuteEventuallyReturns == <>(ppc = "returned")

--------------------------------------------------------------------------
\* Properties of the redacted output

\* the input positions some match of the scan covers
Covered ==
    {pos \in 0..(MaxPos - 1) :
        \E k \in 1..Len(allMatches) :
            allMatches[k].start <= pos /\ pos < allMatches[k].end}

\* the bytes of the input that are still in the output, in output order
RECURSIVE SurvivingBytes(_)
SurvivingBytes(out) ==
    IF out = <<>> THEN <<>>
    ELSE IF Head(out).kind = "byte"
         THEN <<Head(out).at>> \o SurvivingBytes(Tail(out))
         ELSE SurvivingBytes(Tail(out))

\* the input positions outside every match, in input order
RECURSIVE Uncovered(_)
Uncovered(pos) ==
    IF pos >= MaxPos THEN <<>>
    ELSE IF pos \in Covered THEN Uncovered(pos + 1)
         ELSE <<pos>> \o Uncovered(pos + 1)

\* C39: in redact mode no byte of a detected secret survives: every input
\* position covered by a match, also by a match that was dropped for
\* overlapping a kept one, is absent from the output, and the bytes outside
\* all matches are preserved in order.
C39_NoSecretByteSurvives ==
    \A out \in redacted : SurvivingBytes(out) = Uncovered(0)


--------------------------------------------------------------------------
\* Properties of the file watcher

\* the events of a list of batches, batch after batch
RECURSIVE Flatten(_)
Flatten(batches) ==
    IF batches = <<>> THEN <<>> ELSE Head(batches) \o Flatten(Tail(batches))

\* the batches that callbacks took and have not yet handed to the handler
InFlight == [i \in 1..Len(running) |-> running[i].toDeliver]

\* how often event e occurs in list
Occurrences(list, e) == Cardinality({k \in 1..Len(list) : list[k] = e})

\* the events of batch are consecutive arrivals, in arrival order
ArrivalRun(batch) ==
    \A k \in 1..(Len(batch) - 1) : batch[k + 1].seq = batch[k].seq + 1

\* handleEvent has returned, no timer is set and no callback is running
WatcherQuiet == hpc = "idle" /\ ~timerArmed /\ running = <<>>

C37_AddThenRemoveRestoresWatchedPaths ==
    \A r \in roundTrip : r.after = r.before

--------------------------------------------------------------------------
\* Properties of the quota fetcher

\* C38: during one FetchQuota no command string is sent to the pane more
\* than once, for every provider: the status command is not sent when it is
\* the same as the provider's usage command.
C38_NoCommandSentTwice ==
    \A i, j \in 1..Len(paneSent) : i # j => paneSent[i] # paneSent[j]

====
